---- MODULE Spec2Model ----
(***************************************************************************)
(* Verification model of CANdor's I/O layer (src-tauri/src).               *)
(*                                                                         *)
(* The program is modelled as a family of state machines that share one    *)
(* tuple of variables.  The variable sys names the subsystem a behaviour   *)
(* exercises; the variables of the other subsystems rest at their idle     *)
(* values.                                                                 *)
(*   "profile" : profile_tracker.rs, the profile usage registry            *)
(*   "buffer"  : io/buffer.rs, BufferReader and its replay task            *)
(*   "codec"   : io/gvret_common.rs, the GVRET parser and encoder          *)
(*   "multi"   : io/multi_source.rs, the multi-source merger               *)
(*   "batch"   : io/multi_source.rs, the merge loop of run_merge_task      *)
(*               statement by statement, fed by messages of any timestamps *)
(*   "slcan"   : io/slcan.rs, the slcan line parser and encoder            *)
(*   "gvret"   : io/gvret_tcp.rs, the GVRET TCP reader, and transmit_frame  *)
(*               of the serial-port readers (io/slcan.rs, io/gvret_usb.rs) *)
(*   "store"   : the frames buffers of two live sessions, as the readers   *)
(*               create, fill and finalize them                            *)
(*   "serial"  : io/serial.rs and framing.rs, the messages made of the     *)
(*               frames of the serial framer                               *)
(***************************************************************************)
EXTENDS Integers, Sequences, FiniteSets, TLC

VARIABLES
    sys,              \* subsystem exercised by this behaviour
    \* ---- profile_tracker.rs
    PROFILE_USAGE,    \* profile id -> session id, or NoUsage
    sessPc,           \* session -> position in its start sequence
    sessProfile,      \* session -> profile the session is starting on
    \* ---- io/buffer.rs: BufferReader fields
    frames,           \* buffer_store::get_frames(), sorted by timestamp_us
    state,            \* IOState of the reader
    cancel_flag,
    pause_flag,
    pacing_enabled,
    speed,
    seek_target_us,
    completed_flag,
    task_handle,      \* TRUE while the reader holds a JoinHandle
    ctlPc,            \* position of the caller inside stop()
    nCtl,             \* control calls other than start() made so far
    set_speed_result, \* the latest set_speed call: its argument and its result
    \* ---- io/buffer.rs: locals of run_buffer_stream
    pc,               \* position of the replay task
    frame_index,
    batch_buffer,
    last_frame_time,  \* last_frame_time_secs, in microseconds, or NoTime
    is_pacing,
    current_speed,
    seek_target,      \* value loaded from seek_target_us
    \* ---- session sink and observation
    events,           \* events emitted to the session since the latest start()
    pauseSeen,        \* the task's latest read of pause_flag returned true
    wasPaused,        \* a pause the task had seen was resumed during this replay
    seekDone,         \* the current replay task has processed a seek
    lastSeek,         \* what the latest processed seek emitted
    \* ---- io/gvret_common.rs: a codec run
    codIn,            \* the input of the run
    codPc,            \* position of the run
    codEnc,           \* the bytes encode_gvret_frame returned
    codWire,          \* bytes on the stream not yet read
    parse_buffer,     \* the buffer parse_gvret_frames works on
    codOut,           \* frames parsed so far
    \* ---- io/multi_source.rs: MultiSourceReader fields
    sources,
    transmit_routes,  \* output bus -> TransmitRoute, or NoRoute
    mState,           \* IOState of the reader
    stop_flag,
    transmit_channels, \* source indexes that have a sender in the shared map
    mCtl,             \* position of the caller inside stop()
    started,          \* start() has been called
    stopReturned,     \* stop() has returned since the latest start()
    \* ---- run_merge_task
    chan,             \* the SourceMessage channel
    mergePc,
    active_sources,
    pending_frames,
    \* ---- source tasks
    srcPc,
    outbox,           \* the message a source is sending
    nReads,           \* reads that returned data so far
    nFaults,          \* failures and disconnects the environment produced so far
    clock,            \* host time, now_us()
    lastRead,         \* the latest read that returned data: what was parsed, what was forwarded
    \* ---- transmit tasks
    txPc,             \* per source, the place of its transmit task; "inline" when the
                      \* read loop holds the receiver, "absent" when there is none
    txq,              \* per source, the transmit request channel
    txCur,            \* per source, the request being written
    aborted,          \* per source, abort() was called on the transmit task
    written,          \* requests written to the devices, in order
    \* ---- a caller of transmit_frame
    nTx,
    callPc,
    callReq,
    replies,          \* results sent back by the transmit tasks
    results,          \* what the transmit_frame calls returned
    \* ---- io/slcan.rs: a run of the slcan codec
    slIn,             \* the frame handed to encode_slcan_frame, or NoFrame
    slPc,             \* position of the run
    slLine,           \* the line handed to parse_slcan_frame
    slOut,            \* what parse_slcan_frame returned
    slWire,           \* a read loop's run: the reader and the bytes its port delivers
    slPos,            \* bytes of the run read so far
    slFrames,         \* frames the read loop has parsed so far
    \* ---- io/gvret_tcp.rs: GvretReader fields
    gConfig,          \* the kind of reader and what it was built with
    gState,           \* IOState of the reader
    gCancel,          \* cancel_flag
    gSender,          \* transmit_tx holds a sender
    gHandle,          \* task_handle holds a JoinHandle
    gWriter,          \* the shared writer holds the write half (the shared port
                      \* holds the open port, for a serial-port reader)
    gCtl,             \* position of the caller inside stop()
    nStart,           \* start() calls made so far
    gStartRes,        \* what the latest start() returned
    \* ---- spawn_gvret_stream: the stream task and its transmit task
    gPc,              \* position of the stream task
    gReason,          \* stream_reason
    total_frames,
    gReads,           \* reads that returned data so far
    gFaults,          \* failures the environment produced so far
    gClock,           \* host time, now_us()
    gTxPc,            \* position of the transmit task
    gTxq,             \* the transmit request channel
    gTxCur,           \* the request the transmit task is writing
    gAborted,         \* abort() was called on the transmit task
    gWritten,         \* requests written to the socket, in order
    \* ---- callers of GvretReader::transmit_frame
    gCallPc,          \* caller -> position inside transmit_frame
    gCallFrame,       \* caller -> the frame it transmits
    gCallTime,        \* caller -> timestamp of its TransmitResult::success()
    gReplies,         \* results the transmit task sent back
    gResults,         \* caller -> what transmit_frame returned
    \* ---- buffer_store as the live readers use it
    store,            \* the process-wide store: its buffers and the active one
    live,             \* live session -> position of its stream, what it received
    \* ---- io/serial.rs, framing.rs: the framed serial messages
    serCfg,           \* the run: who frames, the bytes to frame, max_length
    serPc,            \* position of the reader or of apply_framing_to_buffer
    serPos,           \* bytes fed to the framer so far
    serFramer,        \* the framer's buffered bytes
    serData,          \* frames the framer has emitted
    serOut            \* the FrameMessages made of them

profVars == <<PROFILE_USAGE, sessPc, sessProfile>>
bufCtl == <<frames, state, cancel_flag, pause_flag, pacing_enabled, speed,
            seek_target_us, completed_flag, task_handle, ctlPc, nCtl>>
bufTask == <<pc, frame_index, batch_buffer, last_frame_time, is_pacing,
             current_speed, seek_target>>
bufObs == <<events, pauseSeen, wasPaused, seekDone, lastSeek>>
bufVars == <<bufCtl, bufTask, bufObs>>
codVars == <<codIn, codPc, codEnc, codWire, parse_buffer, codOut>>
mulCtl == <<sources, transmit_routes, mState, stop_flag, transmit_channels, mCtl,
            started, stopReturned>>
mulMerge == <<chan, mergePc, active_sources, pending_frames>>
mulSrc == <<srcPc, outbox, nReads, nFaults, clock, lastRead>>
mulTx == <<txPc, txq, txCur, aborted, written>>
mulCall == <<nTx, callPc, callReq, replies, results>>
mulVars == <<mulCtl, mulMerge, mulSrc, mulTx, mulCall>>
slVars == <<slIn, slPc, slLine, slOut, slWire, slPos, slFrames>>
gCtlVars == <<gConfig, gState, gCancel, gSender, gHandle, gCtl, nStart, gStartRes>>
gTaskVars == <<gPc, gReason, total_frames, gReads>>
gTxVars == <<gTxPc, gTxq, gTxCur, gAborted, gWritten>>
gCallVars == <<gCallPc, gCallFrame, gCallTime, gReplies, gResults>>
gVars == <<gCtlVars, gTaskVars, gTxVars, gCallVars, gWriter, gFaults, gClock>>
stVars == <<store, live>>
serVars == <<serCfg, serPc, serPos, serFramer, serData, serOut>>
vars == <<sys, profVars, bufVars, set_speed_result, codVars, mulVars, slVars, gVars,
          stVars, serVars>>
notProf == <<bufVars, codVars, mulVars, slVars, gVars, set_speed_result,
            stVars, serVars>>
\* what no part of the buffer reader but set_speed writes
notBuf == <<profVars, codVars, mulVars, slVars, gVars, set_speed_result,
            stVars, serVars>>
notCodec == <<profVars, bufVars, mulVars, slVars, gVars, set_speed_result,
            stVars, serVars>>
notSlcan == <<profVars, bufVars, codVars, mulVars, gVars, set_speed_result,
            stVars, serVars>>
\* the GVRET reader appends to the frame buffer (frames) and emits to the
\* session sink (events)
notGvret == <<profVars, state, cancel_flag, pause_flag, pacing_enabled, speed,
              seek_target_us, completed_flag, task_handle, ctlPc, nCtl, bufTask,
              pauseSeen, wasPaused, seekDone, lastSeek, set_speed_result, codVars, mulVars,
              slVars, stVars, serVars>>
\* the merger appends to the frame buffer (frames) and emits to the session
\* sink (events)
notMulti == <<profVars, state, cancel_flag, pause_flag, pacing_enabled, speed,
              seek_target_us, completed_flag, task_handle, ctlPc, nCtl, bufTask,
              pauseSeen, wasPaused, seekDone, lastSeek, set_speed_result, codVars, slVars,
              gVars, stVars, serVars>>

(***************************************************************************)
(* profile_tracker.rs                                                      *)
(***************************************************************************)
Sessions == {"s1", "s2"}
Profiles == {"p_slcan", "p_serial", "p_gvret"}
NoUsage == "none"
NoProfile == "none"

\* kind recorded in the profile the session opens
ProfileKind(p) ==
    CASE p = "p_slcan" -> "slcan"
      [] p = "p_serial" -> "serial"
      [] OTHER -> "gvret_tcp"

SINGLE_HANDLE_KINDS == {"slcan", "serial"}

\* get_usage: the entry of the map, if any
get_usage(map, profile_id) == map[profile_id]

\* Variant of the check that never looks at the registry.
can_use_any_profile(map, profile_id, kind) == TRUE

\* can_use_profile: TRUE for Ok(()), FALSE for Err(..)
can_use_profile(map, profile_id, kind) ==
    IF kind \notin SINGLE_HANDLE_KINDS
    THEN TRUE
    ELSE get_usage(map, profile_id) = NoUsage

\* Variant of the registration that keeps the entry of an earlier owner.
register_usage_if_vacant(map, profile_id, session_id) ==
    IF map[profile_id] = NoUsage THEN [map EXCEPT ![profile_id] = session_id] ELSE map

\* register_usage: HashMap::insert, overwriting any previous entry
register_usage(map, profile_id, session_id) ==
    [map EXCEPT ![profile_id] = session_id]

\* unregister_usage: HashMap::remove
unregister_usage(map, profile_id) ==
    [map EXCEPT ![profile_id] = NoUsage]

ProfInit ==
    /\ PROFILE_USAGE = [p \in Profiles |-> NoUsage]
    /\ sessPc = [s \in Sessions |-> "idle"]
    /\ sessProfile = [s \in Sessions |-> NoProfile]

\* a session calls can_use_profile(id, kind); the lock is released on return
CanUseProfile(s, p) ==
    /\ sys = "profile"
    /\ sessPc[s] = "idle"
    /\ IF can_use_profile(PROFILE_USAGE, p, ProfileKind(p))
       THEN /\ sessPc' = [sessPc EXCEPT ![s] = "checked"]
            /\ sessProfile' = [sessProfile EXCEPT ![s] = p]
       ELSE /\ sessPc' = [sessPc EXCEPT ![s] = "rejected"]
            /\ sessProfile' = [sessProfile EXCEPT ![s] = p]
    /\ UNCHANGED <<sys, PROFILE_USAGE, notProf>>

\* the session that passed the check calls register_usage(id, session)
RegisterUsage(s) ==
    /\ sys = "profile"
    /\ sessPc[s] = "checked"
    /\ PROFILE_USAGE' = register_usage(PROFILE_USAGE, sessProfile[s], s)
    /\ sessPc' = [sessPc EXCEPT ![s] = "registered"]
    /\ UNCHANGED <<sys, sessProfile, notProf>>

\* the session is destroyed: unregister_usage(id)
UnregisterUsage(s) ==
    /\ sys = "profile"
    /\ sessPc[s] = "registered"
    /\ PROFILE_USAGE' = unregister_usage(PROFILE_USAGE, sessProfile[s])
    /\ sessPc' = [sessPc EXCEPT ![s] = "idle"]
    /\ sessProfile' = [sessProfile EXCEPT ![s] = NoProfile]
    /\ UNCHANGED <<sys, notProf>>

\* a rejected start gives up; the session may try again
GiveUp(s) ==
    /\ sys = "profile"
    /\ sessPc[s] = "rejected"
    /\ sessPc' = [sessPc EXCEPT ![s] = "idle"]
    /\ sessProfile' = [sessProfile EXCEPT ![s] = NoProfile]
    /\ UNCHANGED <<sys, PROFILE_USAGE, notProf>>


(***************************************************************************)
(* io/buffer.rs: frames of the shared buffer                               *)
(***************************************************************************)
MaxFrames == 2
FrameIds == {1, 2}
FirstTimestamp == 1000
\* inter-frame gaps in microseconds: equal timestamps, a gap that is
\* sub-millisecond only at speed 2, and a gap beyond the snapshot lookback
Gaps == {1500, 130000000}

RECURSIVE SumTo(_, _)
SumTo(g, n) == IF n = 0 THEN 0 ELSE g[n] + SumTo(g, n - 1)

\* the buffer holding ids[i] at FirstTimestamp + gaps[1] + .. + gaps[i-1]
MkFrames(ids, gaps) ==
    [i \in 1..Len(ids) |->
        [frame_id |-> ids[i], timestamp_us |-> FirstTimestamp + SumTo(gaps, i - 1)]]

Buffers ==
    UNION {{MkFrames(ids, gaps) : ids \in [1..n -> FrameIds], gaps \in [1..(n - 1) -> Gaps]}
           : n \in 1..MaxFrames}

NoTime == 0 - 1
NO_SEEK == 0 - 1
MAX_LOOKBACK_US == 120000000
\* batch sizes of the replay loop, scaled to the buffers above
\* (buffer.rs: HIGH_SPEED_BATCH_SIZE = 50, NO_LIMIT_BATCH_SIZE = 1000)
HIGH_SPEED_BATCH_SIZE == 2
NO_LIMIT_BATCH_SIZE == 2
\* MIN_DELAY_MS = 1.0, in microseconds
MIN_DELAY_US == 1000

FrameMessage(fs) == [ev |-> "frame-message", frames |-> fs, val |-> 0]
PlaybackTime(t) == [ev |-> "playback-time", frames |-> <<>>, val |-> t]
StreamComplete == [ev |-> "stream-complete", frames |-> <<>>, val |-> 0]

\* frames.binary_search_by(timestamp cmp target).unwrap_or_else(|i| i.min(len-1)):
\* the 0-based index of a frame with that timestamp (any of them when there
\* are several), else the insertion point clamped to the last frame
\* Variant of the search that takes the frame before the target when no
\* frame has the target's timestamp.
binary_search_floor(fs, target) ==
    LET hits == {i \in 0..(Len(fs) - 1) : fs[i + 1].timestamp_us = target}
        ins == Cardinality({i \in 0..(Len(fs) - 1) : fs[i + 1].timestamp_us < target})
    IN IF hits # {} THEN hits
       ELSE {IF ins > 0 THEN ins - 1 ELSE 0}

binary_search(fs, target) ==
    LET hits == {i \in 0..(Len(fs) - 1) : fs[i + 1].timestamp_us = target}
        ins == Cardinality({i \in 0..(Len(fs) - 1) : fs[i + 1].timestamp_us < target})
    IN IF hits # {} THEN hits
       ELSE {IF ins < Len(fs) - 1 THEN ins ELSE Len(fs) - 1}

all_frame_ids(fs) == {fs[i].frame_id : i \in 1..Len(fs)}

\* the backward walk of build_snapshot from 0-based index i; snap holds the
\* most recent frame found so far for each id
RECURSIVE SnapshotWalk(_, _, _, _)
SnapshotWalk(fs, i, target_time_us, snap) ==
    IF i < 0 THEN snap
    ELSE LET f == fs[i + 1] IN
         IF target_time_us > f.timestamp_us
            /\ target_time_us - f.timestamp_us > MAX_LOOKBACK_US
         THEN snap
         ELSE LET snap2 == IF \E g \in snap : g.frame_id = f.frame_id
                           THEN snap ELSE snap \cup {f}
              IN IF Cardinality(snap2) = Cardinality(all_frame_ids(fs))
                 THEN snap2
                 ELSE SnapshotWalk(fs, i - 1, target_time_us, snap2)

\* result.sort_by_key(|f| f.frame_id) on a set with one frame per id
RECURSIVE SortByFrameId(_)
SortByFrameId(S) ==
    IF S = {} THEN <<>>
    ELSE LET m == CHOOSE f \in S : \A g \in S : f.frame_id <= g.frame_id
         IN <<m>> \o SortByFrameId(S \ {m})

build_snapshot(fs, up_to_index) ==
    IF fs = <<>> \/ up_to_index >= Len(fs) THEN <<>>
    ELSE SortByFrameId(SnapshotWalk(fs, up_to_index, fs[up_to_index + 1].timestamp_us, {}))


(***************************************************************************)
(* io/buffer.rs: BufferReader, the control surface                         *)
(***************************************************************************)
\* the caller makes at most MaxCtl control calls besides start()
MaxCtl == 2
InitSpeeds == {0, 1}
Speeds == {-1, 0, 2}
NoCall == [speed |-> 0, result |-> "none"]

\* seek targets: every frame's timestamp, a time before the first frame, a
\* time just after it and a time after the last
SeekTargets(fs) ==
    {fs[i].timestamp_us : i \in 1..Len(fs)}
        \cup {fs[1].timestamp_us - 1, fs[1].timestamp_us + 1,
              fs[Len(fs)].timestamp_us + 1}

NoSeekYet == [target |-> NO_SEEK, paused |-> FALSE, batches |-> <<>>]

\* BufferReader::new: TimelineControl semantics for the initial speed
BufNew(initial_speed) ==
    /\ state = "Stopped"
    /\ cancel_flag = FALSE
    /\ pause_flag = FALSE
    /\ pacing_enabled = (initial_speed > 0)
    /\ speed = (IF initial_speed > 0 THEN initial_speed ELSE 1)
    /\ seek_target_us = NO_SEEK
    /\ completed_flag = FALSE
    /\ task_handle = FALSE
    /\ ctlPc = "idle"
    /\ nCtl = 0
    /\ set_speed_result = NoCall
    /\ pc = "none"
    /\ frame_index = 0
    /\ batch_buffer = <<>>
    /\ last_frame_time = NoTime
    /\ is_pacing = FALSE
    /\ current_speed = 1
    /\ seek_target = NO_SEEK
    /\ events = <<>>
    /\ pauseSeen = FALSE
    /\ wasPaused = FALSE
    /\ seekDone = FALSE
    /\ lastSeek = NoSeekYet

\* start(): resets a completed reader, rejects a running one, clears the
\* cancel and pause flags and spawns run_buffer_stream
\* Variant of start() that resets the seek target with the other flags.
ClearedByStart(target) == NO_SEEK

\* seek_target_us across start(): the Arc is cloned into the new task,
\* nothing is stored to it
SeekAcrossStart(target) == target

BufStart ==
    /\ sys = "buffer"
    /\ ctlPc = "idle"
    /\ (IF completed_flag THEN "Stopped" ELSE state) \notin {"Running", "Paused"}
    /\ frames # <<>>
    /\ state' = "Running"
    /\ cancel_flag' = FALSE
    /\ pause_flag' = FALSE
    /\ completed_flag' = FALSE
    /\ task_handle' = TRUE
    /\ pc' = "head"
    /\ frame_index' = 0
    /\ batch_buffer' = <<>>
    /\ last_frame_time' = NoTime
    /\ events' = <<>>
    /\ pauseSeen' = FALSE
    /\ wasPaused' = FALSE
    /\ seekDone' = FALSE
    /\ lastSeek' = NoSeekYet
    /\ seek_target_us' = SeekAcrossStart(seek_target_us)
    /\ UNCHANGED <<sys, frames, pacing_enabled, speed, ctlPc, nCtl,
                   is_pacing, current_speed, seek_target, notBuf>>

\* stop(): sets the cancel flag, then awaits the task handle
BufStopBegin ==
    /\ sys = "buffer"
    /\ ctlPc = "idle"
    /\ nCtl < MaxCtl
    /\ cancel_flag' = TRUE
    /\ ctlPc' = "stopping"
    /\ nCtl' = nCtl + 1
    /\ UNCHANGED <<sys, frames, state, pause_flag, pacing_enabled, speed,
                   seek_target_us, completed_flag, task_handle,
                   bufTask, bufObs, notBuf>>

\* stop(): the awaited task has finished (or there was none)
BufStopJoin ==
    /\ sys = "buffer"
    /\ ctlPc = "stopping"
    /\ task_handle => pc = "done"
    /\ task_handle' = FALSE
    /\ state' = "Stopped"
    /\ ctlPc' = "idle"
    /\ UNCHANGED <<sys, frames, cancel_flag, pause_flag, pacing_enabled, speed,
                   seek_target_us, completed_flag, nCtl, bufTask, bufObs, notBuf>>

BufPause ==
    /\ sys = "buffer"
    /\ ctlPc = "idle"
    /\ nCtl < MaxCtl
    /\ state = "Running"
    /\ pause_flag' = TRUE
    /\ state' = "Paused"
    /\ nCtl' = nCtl + 1
    /\ UNCHANGED <<sys, frames, cancel_flag, pacing_enabled, speed, seek_target_us,
                   completed_flag, task_handle, ctlPc, bufTask, bufObs, notBuf>>

BufResume ==
    /\ sys = "buffer"
    /\ ctlPc = "idle"
    /\ nCtl < MaxCtl
    /\ state = "Paused"
    /\ pause_flag' = FALSE
    /\ state' = "Running"
    /\ wasPaused' = (wasPaused \/ pauseSeen)
    /\ nCtl' = nCtl + 1
    /\ UNCHANGED <<sys, frames, cancel_flag, pacing_enabled, speed, seek_target_us,
                   completed_flag, task_handle, ctlPc, bufTask,
                   events, pauseSeen, seekDone, lastSeek, notBuf>>

\* TimelineControl::set_speed on the control state ctl: the result and the
\* control state it leaves
TimelineControl_set_speed(ctl, s) ==
    IF s < 0 THEN [result |-> "Err: Speed cannot be negative", ctl |-> ctl]
    ELSE IF s = 0
         THEN [result |-> "Ok", ctl |-> [ctl EXCEPT !.pacing_enabled = FALSE]]
         ELSE [result |-> "Ok",
               ctl |-> [ctl EXCEPT !.pacing_enabled = TRUE, !.speed = s]]

\* Variant of set_speed that stores the speed before it looks at its sign.
set_speed_unchecked(ctl, s) ==
    [result |-> IF s < 0 THEN "Err: Speed cannot be negative" ELSE "Ok",
     ctl |-> [ctl EXCEPT !.pacing_enabled = (s # 0), !.speed = s]]

\* BufferReader::set_speed on the reader's atomics
BufferReader_set_speed(ctl, s) ==
    IF s < 0 THEN [result |-> "Err: Speed cannot be negative", ctl |-> ctl]
    ELSE IF s = 0
         THEN [result |-> "Ok", ctl |-> [ctl EXCEPT !.pacing_enabled = FALSE]]
         ELSE [result |-> "Ok",
               ctl |-> [ctl EXCEPT !.pacing_enabled = TRUE, !.speed = s]]

\* the four atomics set_speed's contract speaks of
Control ==
    [cancel_flag |-> cancel_flag, pause_flag |-> pause_flag,
     pacing_enabled |-> pacing_enabled, speed |-> speed]

\* set_speed(s): 0 disables pacing and keeps the stored speed
BufSetSpeed(s) ==
    /\ sys = "buffer"
    /\ ctlPc = "idle"
    /\ nCtl < MaxCtl
    /\ LET r == BufferReader_set_speed(Control, s) IN
       /\ cancel_flag' = r.ctl.cancel_flag
       /\ pause_flag' = r.ctl.pause_flag
       /\ pacing_enabled' = r.ctl.pacing_enabled
       /\ speed' = r.ctl.speed
       /\ set_speed_result' = [speed |-> s, result |-> r.result]
    /\ nCtl' = nCtl + 1
    /\ UNCHANGED <<sys, frames, state, seek_target_us, completed_flag, task_handle,
                   ctlPc, bufTask, bufObs, profVars, codVars, mulVars, slVars, gVars,
                   stVars, serVars>>

\* seek(t): stores the target, whatever the state
BufSeekTo(t) ==
    /\ sys = "buffer"
    /\ ctlPc = "idle"
    /\ nCtl < MaxCtl
    /\ seek_target_us' = t
    /\ nCtl' = nCtl + 1
    /\ UNCHANGED <<sys, frames, state, cancel_flag, pause_flag, pacing_enabled, speed,
                   completed_flag, task_handle, ctlPc, bufTask, bufObs, notBuf>>


(***************************************************************************)
(* io/buffer.rs: run_buffer_stream, one action per step between two        *)
(* reads of shared state, awaits or emissions                              *)
(***************************************************************************)
\* the frame taken at the latest "frames[frame_index]; frame_index += 1"
frame == frames[frame_index]

\* top of the loop: the loop condition and the cancel check, the load of the
\* seek target, the pause check; when none applies the next frame is taken
\* and the pacing settings are read
BufHead ==
    /\ sys = "buffer"
    /\ pc = "head"
    /\ IF frame_index >= Len(frames) \/ cancel_flag
       THEN /\ pc' = "final"
            /\ UNCHANGED <<seek_target, pauseSeen, frame_index, is_pacing, current_speed>>
       ELSE IF seek_target_us # NO_SEEK
       THEN /\ pc' = "seek"
            /\ seek_target' = seek_target_us
            /\ UNCHANGED <<pauseSeen, frame_index, is_pacing, current_speed>>
       ELSE IF pause_flag
       THEN /\ pc' = "pause_sleep"
            /\ pauseSeen' = TRUE
            /\ UNCHANGED <<seek_target, frame_index, is_pacing, current_speed>>
       ELSE /\ pc' = "branch"
            /\ pauseSeen' = FALSE
            /\ frame_index' = frame_index + 1
            /\ is_pacing' = pacing_enabled
            /\ current_speed' = speed
            /\ UNCHANGED seek_target
    /\ UNCHANGED <<sys, bufCtl, batch_buffer, last_frame_time,
                   events, wasPaused, seekDone, lastSeek, notBuf>>

\* the seek branch: clear the request, locate the frame, flush the pending
\* batch, emit the playback position and, when paused, the snapshot
BufSeek ==
    /\ sys = "buffer"
    /\ pc = "seek"
    /\ \E target_idx \in binary_search(frames, seek_target) :
        LET is_paused == pause_flag
            flush == IF batch_buffer # <<>> THEN <<FrameMessage(batch_buffer)>> ELSE <<>>
            snapshot == build_snapshot(frames, target_idx)
            snap == IF is_paused /\ snapshot # <<>>
                    THEN <<FrameMessage(snapshot)>> ELSE <<>>
        IN /\ frame_index' = target_idx
           /\ events' = events \o flush
                        \o <<PlaybackTime(frames[target_idx + 1].timestamp_us)>> \o snap
           /\ lastSeek' = [target |-> seek_target, paused |-> is_paused,
                           batches |-> flush \o snap]
    /\ seek_target_us' = NO_SEEK
    /\ batch_buffer' = <<>>
    /\ last_frame_time' = NoTime
    /\ seekDone' = TRUE
    /\ pc' = "head"
    /\ UNCHANGED <<sys, frames, state, cancel_flag, pause_flag, pacing_enabled, speed,
                   completed_flag, task_handle, ctlPc, nCtl,
                   is_pacing, current_speed, seek_target, pauseSeen, wasPaused, notBuf>>

\* the 50 ms sleep of a paused task is over
BufPauseSleep ==
    /\ sys = "buffer"
    /\ pc = "pause_sleep"
    /\ pc' = "head"
    /\ UNCHANGED <<sys, bufCtl, frame_index, batch_buffer, last_frame_time,
                   is_pacing, current_speed, seek_target, bufObs, notBuf>>

\* delay_ms < MIN_DELAY_MS for the taken frame
HighSpeed ==
    \/ last_frame_time = NoTime
    \/ frame.timestamp_us - last_frame_time < MIN_DELAY_US * current_speed

\* after the proactive pacing sleep: the unpaced batch, the high-speed
\* batch, or the flush that precedes the inter-frame sleep
BufBranch ==
    /\ sys = "buffer"
    /\ pc = "branch"
    /\ last_frame_time' = frame.timestamp_us
    /\ IF ~is_pacing
       THEN /\ pc' = "head"
            /\ IF Len(batch_buffer) + 1 >= NO_LIMIT_BATCH_SIZE
               THEN /\ events' = events \o <<FrameMessage(Append(batch_buffer, frame)),
                                              PlaybackTime(frame.timestamp_us)>>
                    /\ batch_buffer' = <<>>
               ELSE /\ batch_buffer' = Append(batch_buffer, frame)
                    /\ UNCHANGED events
       ELSE IF HighSpeed
            THEN /\ batch_buffer' = Append(batch_buffer, frame)
                 /\ \E pacing_interval_elapsed \in BOOLEAN :
                      pc' = IF Len(batch_buffer) + 1 >= HIGH_SPEED_BATCH_SIZE
                               \/ pacing_interval_elapsed
                            THEN "hs_emit" ELSE "head"
                 /\ UNCHANGED events
            ELSE /\ events' = events \o (IF batch_buffer # <<>>
                                         THEN <<FrameMessage(batch_buffer)>> ELSE <<>>)
                 /\ batch_buffer' = <<>>
                 /\ pc' = "norm_sleep"
    /\ UNCHANGED <<sys, bufCtl, frame_index, is_pacing, current_speed, seek_target,
                   pauseSeen, wasPaused, seekDone, lastSeek, notBuf>>

\* high-speed mode: the batch is emitted after the catch-up sleep
BufHsEmit ==
    /\ sys = "buffer"
    /\ pc = "hs_emit"
    /\ events' = events \o <<FrameMessage(batch_buffer), PlaybackTime(frame.timestamp_us)>>
    /\ batch_buffer' = <<>>
    /\ pc' = "head"
    /\ UNCHANGED <<sys, bufCtl, frame_index, last_frame_time, is_pacing, current_speed,
                   seek_target, pauseSeen, wasPaused, seekDone, lastSeek, notBuf>>

\* Variant without the rewind of lines 550-553: the frame taken before the
\* sleep is not replayed after a pause.
NoRewind(paused, idx) == idx

\* frame_index after the pause re-check that follows the inter-frame sleep
RewindIfPaused(paused, idx) == IF paused THEN idx - 1 ELSE idx

\* normal speed: the inter-frame sleep is over; re-check pause, else emit
BufNormWake ==
    /\ sys = "buffer"
    /\ pc = "norm_sleep"
    /\ frame_index' = RewindIfPaused(pause_flag, frame_index)
    /\ IF pause_flag
       THEN /\ pauseSeen' = TRUE
            /\ UNCHANGED events
       ELSE /\ events' = events \o <<FrameMessage(<<frame>>),
                                      PlaybackTime(frame.timestamp_us)>>
            /\ UNCHANGED pauseSeen
    /\ pc' = "head"
    /\ UNCHANGED <<sys, bufCtl, batch_buffer, last_frame_time, is_pacing, current_speed,
                   seek_target, wasPaused, seekDone, lastSeek, notBuf>>

\* after the loop: emit what is left in the batch buffer, then load
\* was_cancelled from the cancel flag
BufFinal ==
    /\ sys = "buffer"
    /\ pc = "final"
    /\ events' = events \o (IF batch_buffer # <<>>
                            THEN <<FrameMessage(batch_buffer)>> ELSE <<>>)
    /\ batch_buffer' = <<>>
    /\ pc' = IF cancel_flag THEN "finish_stopped" ELSE "finish_complete"
    /\ UNCHANGED <<sys, bufCtl, frame_index, last_frame_time, is_pacing, current_speed,
                   seek_target, pauseSeen, wasPaused, seekDone, lastSeek, notBuf>>

\* Variant of the end of the stream that reports completion whatever
\* was_cancelled holds.
AlwaysComplete(was_cancelled) == FALSE

\* was_cancelled, loaded from the cancel flag after the last flush
WasCancelled(was_cancelled) == was_cancelled

\* a stream that was not cancelled marks completion and emits stream-complete
BufFinish ==
    /\ sys = "buffer"
    /\ pc \in {"finish_stopped", "finish_complete"}
    /\ IF WasCancelled(pc = "finish_stopped")
       THEN UNCHANGED <<completed_flag, events>>
       ELSE /\ completed_flag' = TRUE
            /\ events' = Append(events, StreamComplete)
    /\ pc' = "done"
    /\ last_frame_time' = NoTime
    /\ is_pacing' = FALSE
    /\ current_speed' = 1
    /\ seek_target' = NO_SEEK
    /\ UNCHANGED <<sys, frames, state, cancel_flag, pause_flag, pacing_enabled, speed,
                   seek_target_us, task_handle, ctlPc, nCtl,
                   frame_index, batch_buffer, pauseSeen, wasPaused, seekDone, lastSeek, notBuf>>

(***************************************************************************)
(* io/gvret_common.rs: the GVRET codec                                     *)
(*                                                                         *)
(* Bytes are the integers 0..255.  A u32 CAN id that carries the extended  *)
(* flag in bit 31 is kept as its four little-endian bytes, so that no      *)
(* value of the model exceeds the range of the checker's integers; frame   *)
(* ids themselves are below 2^31.  The host timestamp that the parser      *)
(* stamps on a frame (now_us) does not depend on the bytes and is left out *)
(* of the frame records.                                                   *)
(***************************************************************************)
GVRET_SYNC == 241
GVRET_CMD_FRAME == 0
DLC_LEN == <<0, 1, 2, 3, 4, 5, 6, 7, 8, 12, 16, 20, 24, 32, 48, 64>>
HEADER_LEN == 11
SYNC_LOSS_LIMIT == 1024

to_le_bytes(n) ==
    <<n % 256, (n \div 256) % 256, (n \div 65536) % 256, (n \div 16777216) % 256>>

Drain(buf, n) == SubSeq(buf, n + 1, Len(buf))

\* position (1-based) of the first sync byte, 0 when there is none
SyncPos(buf) ==
    IF \E i \in 1..Len(buf) : buf[i] = GVRET_SYNC
    THEN CHOOSE i \in 1..Len(buf) :
            buf[i] = GVRET_SYNC /\ \A j \in 1..(i - 1) : buf[j] # GVRET_SYNC
    ELSE 0

\* Variant of the discard step that also drops the sync byte it found.
DrainPastSync(buf, pos) == IF pos > 1 THEN Drain(buf, pos) ELSE buf

\* discard the bytes before the sync byte at pos
DiscardBeforeSync(buf, pos) == IF pos > 1 THEN Drain(buf, pos - 1) ELSE buf

\* length of a control reply, 0 for an opcode that is not a control reply
ctrl_len(op) ==
    CASE op = 1 -> 6
      [] op = 9 -> 4
      [] op = 6 -> 12
      [] op = 7 -> 7
      [] op = 12 -> 3
      [] OTHER -> 0

\* the frame at the head of a buffer that holds a complete frame record
ParsedFrame(buf) ==
    LET bus_dlc == buf[11]
        payload_len == DLC_LEN[(bus_dlc % 16) + 1]
        is_ext == buf[10] >= 128
        arb_id == IF is_ext
                  THEN buf[7] + 256 * buf[8] + 65536 * buf[9] + 16777216 * (buf[10] % 32)
                  ELSE buf[7] + 256 * (buf[8] % 8)
    IN [frame_id |-> arb_id,
        bus |-> (bus_dlc \div 16) % 16,
        dlc |-> payload_len,
        bytes |-> SubSeq(buf, HEADER_LEN + 1, HEADER_LEN + payload_len),
        is_extended |-> is_ext,
        is_fd |-> payload_len > 8]

\* Variant of the sync-loss branch that keeps whatever has accumulated.
KeepResidue(buffer) == buffer

\* no sync byte in the buffer: it is cleared once it is longer than the limit
BoundResidue(buffer) == IF Len(buffer) > SYNC_LOSS_LIMIT THEN <<>> ELSE buffer

\* Variant of the breaks on a short buffer that drops the started record.
DropIncomplete(b) == <<>>

\* a break on a short buffer leaves the started record in the buffer
KeepIncomplete(b) == b

RECURSIVE ParseLoop(_, _)
ParseLoop(buffer, out) ==
    LET pos == SyncPos(buffer) IN
    IF pos = 0
    THEN [out |-> out, buffer |-> BoundResidue(buffer)]
    ELSE
    LET b == DiscardBeforeSync(buffer, pos) IN
    IF Len(b) < 2 THEN [out |-> out, buffer |-> KeepIncomplete(b)]
    ELSE IF ctrl_len(b[2]) # 0
    THEN IF Len(b) < ctrl_len(b[2])
         THEN [out |-> out, buffer |-> KeepIncomplete(b)]
         ELSE ParseLoop(Drain(b, ctrl_len(b[2])), out)
    ELSE IF b[2] # GVRET_CMD_FRAME THEN ParseLoop(Drain(b, 1), out)
    ELSE IF Len(b) < HEADER_LEN THEN [out |-> out, buffer |-> KeepIncomplete(b)]
    ELSE
    LET total_len == HEADER_LEN + DLC_LEN[(b[11] % 16) + 1] IN
    IF Len(b) < total_len THEN [out |-> out, buffer |-> KeepIncomplete(b)]
    ELSE ParseLoop(Drain(b, total_len), Append(out, ParsedFrame(b)))

\* the frames parsed from the buffer and the bytes left in it
parse_gvret_frames(buffer) == ParseLoop(buffer, <<>>)

\* Variant of the id encoding that never sets the extended flag.
encode_frame_id_unflagged(f) == to_le_bytes(f.frame_id)

\* the four id bytes of a transmit record
encode_frame_id(f) ==
    IF f.is_extended
    THEN LET b == to_le_bytes(f.frame_id) IN [b EXCEPT ![4] = (b[4] % 128) + 128]
    ELSE to_le_bytes(f.frame_id % 2048)

encode_gvret_frame(f) ==
    <<GVRET_SYNC, GVRET_CMD_FRAME>> \o encode_frame_id(f)
        \o <<f.bus, Len(f.data) % 256>> \o f.data

\* Variant of the validation that checks the data length and not the bus.
validate_gvret_length(f) ==
    /\ ~(~f.is_fd /\ Len(f.data) > 8)
    /\ ~(f.is_fd /\ Len(f.data) > 64)

\* TRUE when the frame is accepted for transmission
validate_gvret_frame(f) ==
    /\ ~(~f.is_fd /\ Len(f.data) > 8)
    /\ ~(f.is_fd /\ Len(f.data) > 64)
    /\ ~(f.bus > 4)

\* ---- inputs of the codec runs
MaxChunk == 3

BytesAB == <<170, 187>>
BytesABZ == <<170, 187, 0>>
Bytes4 == <<170, 187, 204, 221>>
Bytes9 == <<1, 2, 3, 4, 5, 6, 7, 8, 9>>
Bytes12 == <<1, 2, 3, 4, 5, 6, 7, 8, 9, 10, 11, 12>>
Bytes64 == [i \in 1..64 |-> i]

\* CanTransmitFrame values handed to transmit_frame
TxFrames ==
    [frame_id : {291, 305419896}, data : {<<>>, BytesAB, BytesABZ, Bytes4, Bytes9},
     bus : {0, 1, 5}, is_extended : BOOLEAN, is_fd : BOOLEAN]

\* frames a GVRET device reports
RxFrame(id, ext, bus, bytes) ==
    [frame_id |-> id, bus |-> bus, dlc |-> Len(bytes), bytes |-> bytes,
     is_extended |-> ext, is_fd |-> Len(bytes) > 8]
RxFirst ==
    {RxFrame(291, FALSE, 0, Bytes4), RxFrame(305419896, TRUE, 1, BytesAB),
     RxFrame(127, FALSE, 0, <<>>), RxFrame(291, FALSE, 1, Bytes12),
     RxFrame(2047, FALSE, 0, <<GVRET_SYNC, 0>>)}
RxSecond ==
    {RxFrame(291, FALSE, 0, Bytes4), RxFrame(305419896, TRUE, 0, <<255>>),
     RxFrame(127, FALSE, 1, <<>>)}
DeviceTimestamps == {<<0, 0, 0, 0>>, <<GVRET_SYNC, 9, 0, 1>>}

\* the record a device puts on the wire for a frame (receive layout)
DeviceRecord(f, ts) ==
    LET nibble == CHOOSE n \in 0..15 : DLC_LEN[n + 1] = Len(f.bytes)
        id == to_le_bytes(f.frame_id)
    IN <<GVRET_SYNC, GVRET_CMD_FRAME>> \o ts
        \o (IF f.is_extended THEN [id EXCEPT ![4] = id[4] + 128] ELSE id)
        \o <<f.bus * 16 + nibble>> \o f.bytes

\* bytes that are not part of any record
Noises ==
    {<<>>, <<170>>, <<0, 85, 9>>, <<GVRET_SYNC>>, <<0, GVRET_SYNC, 85>>,
     <<GVRET_SYNC, 0>>, <<GVRET_SYNC, 9>>}
LeadNoises == {<<>>, <<170, 0>>, <<GVRET_SYNC, 85>>, <<GVRET_SYNC, 12>>}
\* a run of bytes without a sync byte, one byte longer than the limit
Flood == [i \in 1..(SYNC_LOSS_LIMIT + 1) |-> 85]
\* frames a device sends after a flood, the second with the longest payload
FloodFrames == {RxFrame(291, FALSE, 0, Bytes4), RxFrame(291, FALSE, 1, Bytes64)}

NoTx == [frame_id |-> 0, data |-> <<>>, bus |-> 0, is_extended |-> FALSE, is_fd |-> FALSE]

CodecIdle ==
    /\ codPc = "idle"
    /\ codIn = [kind |-> "none", tx |-> NoTx, sent |-> <<>>, noise |-> <<>>]
    /\ codEnc = <<>>
    /\ codWire = <<>>
    /\ parse_buffer = <<>>
    /\ codOut = <<>>

CodecInit ==
    /\ codEnc = <<>>
    /\ parse_buffer = <<>>
    /\ codOut = <<>>
    /\ \/ \E f \in TxFrames :
            /\ codIn = [kind |-> "roundtrip", tx |-> f, sent |-> <<>>, noise |-> <<>>]
            /\ codPc = "tx"
            /\ codWire = <<>>
       \/ \E f1 \in RxFirst, f2 \in RxSecond, t1, t2 \in DeviceTimestamps,
             n0 \in LeadNoises, n1 \in Noises :
            /\ codIn = [kind |-> "resync", tx |-> NoTx, sent |-> <<f1, f2>>,
                        noise |-> <<n0, n1>>]
            /\ codPc = "feed"
            /\ codWire = n0 \o DeviceRecord(f1, t1) \o n1 \o DeviceRecord(f2, t2)
       \/ \E f \in FloodFrames :
            /\ codIn = [kind |-> "flood", tx |-> NoTx, sent |-> <<f>>, noise |-> <<Flood>>]
            /\ codPc = "feed"
            /\ codWire = Flood \o DeviceRecord(f, <<0, 0, 0, 0>>)

\* transmit_frame up to the encoded bytes: validate, then encode
CodecEncode ==
    /\ sys = "codec"
    /\ codPc = "tx"
    /\ IF validate_gvret_frame(codIn.tx)
       THEN /\ codEnc' = encode_gvret_frame(codIn.tx)
            /\ codWire' = encode_gvret_frame(codIn.tx)
            /\ codPc' = "feed"
       ELSE /\ codPc' = "rejected"
            /\ UNCHANGED <<codEnc, codWire>>
    /\ UNCHANGED <<sys, codIn, parse_buffer, codOut, notCodec>>

\* one read of the stream: n bytes arrive, are appended to the parse buffer
\* and the parser runs over it
CodecFeed(n) ==
    /\ sys = "codec"
    /\ codPc = "feed"
    /\ n \in 1..Len(codWire)
    /\ n <= MaxChunk \/ n = Len(codWire)
    /\ LET r == parse_gvret_frames(parse_buffer \o SubSeq(codWire, 1, n)) IN
        /\ parse_buffer' = r.buffer
        /\ codOut' = codOut \o r.out
    /\ codWire' = Drain(codWire, n)
    /\ codPc' = IF n = Len(codWire) THEN "done" ELSE "feed"
    /\ UNCHANGED <<sys, codIn, codEnc, notCodec>>

(***************************************************************************)
(* io/slcan.rs: parse_slcan_frame and encode_slcan_frame.  A line is a     *)
(* sequence of one-character strings.                                      *)
(***************************************************************************)
HexChars == <<"0", "1", "2", "3", "4", "5", "6", "7",
              "8", "9", "A", "B", "C", "D", "E", "F">>
LowerHexChars == <<"0", "1", "2", "3", "4", "5", "6", "7",
                   "8", "9", "a", "b", "c", "d", "e", "f">>
NoValue == 0 - 1
NoFrame == [kind |-> "None"]

\* char::to_digit(16): the value of a hex digit of either case, else NoValue
to_digit(c) ==
    IF \E n \in 1..16 : HexChars[n] = c \/ LowerHexChars[n] = c
    THEN (CHOOSE n \in 1..16 : HexChars[n] = c \/ LowerHexChars[n] = c) - 1
    ELSE NoValue

RECURSIVE DigitsValue(_, _)
\* the radix-16 value of a run of digits continuing acc, NoValue on a
\* character that is not a hex digit
DigitsValue(s, acc) ==
    IF s = <<>> THEN acc
    ELSE IF to_digit(Head(s)) = NoValue THEN NoValue
    ELSE DigitsValue(Tail(s), 16 * acc + to_digit(Head(s)))

\* u32::from_str_radix(s, 16) and u8::from_str_radix(s, 16): an optional
\* leading "+", then at least one hex digit; NoValue for Err
from_str_radix(s) ==
    LET digits == IF s # <<>> /\ Head(s) = "+" THEN Tail(s) ELSE s
    IN IF digits = <<>> THEN NoValue ELSE DigitsValue(digits, 0)

RECURSIVE FormatHex(_, _)
\* format!("{:0wX}", n): upper-case hex, zero-padded to at least w digits
FormatHex(n, w) ==
    IF n < 16 /\ w <= 1 THEN <<HexChars[n + 1]>>
    ELSE FormatHex(n \div 16, w - 1) \o <<HexChars[(n % 16) + 1]>>

RECURSIVE FormatBytes(_)
\* the "{:02X}" of every byte, in order
FormatBytes(bytes) ==
    IF bytes = <<>> THEN <<>>
    ELSE FormatHex(Head(bytes), 2) \o FormatBytes(Tail(bytes))

RECURSIVE ParseDataBytes(_, _)
\* the first n byte pairs of s; NoValue in place of a pair that does not parse
ParseDataBytes(s, n) ==
    IF n = 0 THEN <<>>
    ELSE <<from_str_radix(SubSeq(s, 1, 2))>> \o ParseDataBytes(SubSeq(s, 3, Len(s)), n - 1)

Min(a, b) == IF a < b THEN a ELSE b

\* the prefix and id of an encoded frame
encode_slcan_id(f) ==
    IF f.is_extended
    THEN <<"T">> \o FormatHex(f.frame_id, 8)
    ELSE <<"t">> \o FormatHex(f.frame_id % 2048, 3)

\* encode_slcan_frame: prefix, id, dlc digit, every data byte, CR
encode_slcan_frame(f) ==
    encode_slcan_id(f) \o FormatHex(Min(f.dlc, 8), 1) \o FormatBytes(f.bytes) \o <<"\r">>

\* the data bytes of a line that has passed the prefix, id and dlc checks;
\* ok is FALSE when the line is too short or a pair does not parse
slcan_data(line, id_len, dlc, is_rtr) ==
    IF is_rtr \/ dlc = 0 THEN [ok |-> TRUE, bytes |-> <<>>]
    ELSE IF Len(line) < 1 + id_len + 1 + dlc * 2 THEN [ok |-> FALSE, bytes |-> <<>>]
    ELSE LET data == ParseDataBytes(SubSeq(line, 1 + id_len + 2, Len(line)), dlc)
         IN [ok |-> \A k \in 1..dlc : data[k] # NoValue, bytes |-> data]

\* parse_slcan_frame: Some(FrameMessage) as a record of kind "Some", or NoFrame
parse_slcan_frame(line) ==
    IF line = <<>> THEN NoFrame
    ELSE IF line[1] \notin {"t", "T", "r", "R"} THEN NoFrame
    ELSE
    LET is_extended == line[1] \in {"T", "R"}
        is_rtr == line[1] \in {"r", "R"}
        id_len == IF is_extended THEN 8 ELSE 3
    IN IF Len(line) < 1 + id_len + 1 THEN NoFrame
       ELSE
       LET frame_id == from_str_radix(SubSeq(line, 2, 1 + id_len))
           dlc == to_digit(line[1 + id_len + 1])
       IN IF frame_id = NoValue \/ dlc = NoValue \/ dlc > 8 THEN NoFrame
          ELSE LET data == slcan_data(line, id_len, dlc, is_rtr)
               IN IF ~data.ok THEN NoFrame
                  ELSE [kind |-> "Some", frame_id |-> frame_id, bus |-> 0, dlc |-> dlc,
                        bytes |-> data.bytes, is_extended |-> is_extended, is_fd |-> FALSE,
                        direction |-> "none"]

\* ---- io/slcan.rs, io/multi_source.rs: the line buffers of the read loops
\* Bytes are written as the characters they stand for; BEL is 0x07, TAB a
\* control character that is neither CR, LF nor BEL, HIGH a byte above 0x7F.
\* u8::is_ascii
is_ascii(byte) == byte # "HIGH"
\* u8::is_ascii_control
is_ascii_control(byte) == byte \in {"\r", "\n", "BEL", "TAB"}
\* char::is_whitespace
is_whitespace(c) == c \in {"\r", "\n", "TAB", " "}
SLCAN_LINE_LIMIT == 64

\* the frames of a line: the parsed frame, or nothing
LineFrames(line) ==
    IF parse_slcan_frame(line).kind = "Some" THEN <<parse_slcan_frame(line)>> ELSE <<>>

\* run_slcan_stream_blocking: one byte of a read
ReaderByte(st, byte) ==
    IF byte = "\r" \/ byte = "\n"
    THEN IF st.line_buf # <<>>
         THEN [line_buf |-> <<>>, out |-> st.out \o LineFrames(st.line_buf)]
         ELSE st
    ELSE IF byte = "BEL" THEN [st EXCEPT !.line_buf = <<>>]
    ELSE IF is_ascii(byte) /\ ~is_ascii_control(byte)
    THEN LET l == Append(st.line_buf, byte) IN
         [st EXCEPT !.line_buf = IF Len(l) > SLCAN_LINE_LIMIT THEN <<>> ELSE l]
    ELSE st

\* run_slcan_stream_blocking: the bytes of one read, in order
RECURSIVE ReaderBytes(_, _)
ReaderBytes(st, bytes) ==
    IF bytes = <<>> THEN st
    ELSE ReaderBytes(ReaderByte(st, Head(bytes)), Tail(bytes))

\* std::str::from_utf8 succeeds on the bytes of a read
from_utf8_ok(bytes) == \A k \in 1..Len(bytes) : is_ascii(bytes[k])

\* str::trim
RECURSIVE trim(_)
trim(line) ==
    IF line = <<>> THEN line
    ELSE IF is_whitespace(Head(line)) THEN trim(Tail(line))
    ELSE IF is_whitespace(line[Len(line)]) THEN trim(SubSeq(line, 1, Len(line) - 1))
    ELSE line

\* position of the first CR or LF of the line buffer, 0 when there is none
LineEndPos(line_buf) ==
    IF \E k \in 1..Len(line_buf) : line_buf[k] \in {"\r", "\n"}
    THEN CHOOSE k \in 1..Len(line_buf) :
            /\ line_buf[k] \in {"\r", "\n"}
            /\ \A j \in 1..(k - 1) : line_buf[j] \notin {"\r", "\n"}
    ELSE 0

\* run_slcan_source: the complete lines of the line buffer are parsed
RECURSIVE SourceLines(_)
SourceLines(st) ==
    LET pos == LineEndPos(st.line_buf) IN
    IF pos = 0 THEN st
    ELSE LET trimmed == trim(SubSeq(st.line_buf, 1, pos - 1)) IN
         SourceLines([line_buf |-> SubSeq(st.line_buf, pos + 1, Len(st.line_buf)),
                      out |-> st.out \o (IF trimmed # <<>> THEN LineFrames(trimmed)
                                                          ELSE <<>>)])

\* run_slcan_source: the bytes of one read; a read that is not UTF-8 is
\* dropped
SourceChunk(st, bytes) ==
    IF from_utf8_ok(bytes)
    THEN SourceLines([st EXCEPT !.line_buf = @ \o bytes])
    ELSE st

(***************************************************************************)
(* io/multi_source.rs: MultiSourceReader, the merge task, the GVRET TCP    *)
(* source tasks and their transmit tasks                                   *)
(***************************************************************************)
Mapping(d, o, en) == [device_bus |-> d, output_bus |-> o, enabled |-> en]
Source(found, maps) ==
    [profile_found |-> found, profile_kind |-> "gvret_tcp", bus_mappings |-> maps,
     silent_mode |-> FALSE]
\* an slcan source, whose profile holds the silent_mode setting
SlcanSource(maps, silent_mode) ==
    [profile_found |-> TRUE, profile_kind |-> "slcan", bus_mappings |-> maps,
     silent_mode |-> silent_mode]

\* the source lists the model runs the reader with
Configs ==
    {<<Source(TRUE, <<Mapping(0, 5, TRUE), Mapping(1, 6, FALSE)>>)>>,
     <<Source(TRUE, <<Mapping(0, 0, TRUE)>>),
       Source(TRUE, <<Mapping(0, 1, TRUE), Mapping(1, 0, TRUE)>>)>>,
     <<Source(TRUE, <<Mapping(0, 0, TRUE)>>), Source(FALSE, <<Mapping(0, 1, TRUE)>>)>>,
     <<Source(TRUE, <<Mapping(0, 2, FALSE), Mapping(0, 3, TRUE), Mapping(0, 1, TRUE),
                      Mapping(1, 1, TRUE)>>)>>,
     <<SlcanSource(<<Mapping(0, 1, TRUE)>>, TRUE)>>,
     <<SlcanSource(<<Mapping(0, 1, TRUE)>>, FALSE)>>,
     <<SlcanSource(<<Mapping(0, 1, TRUE)>>, TRUE), Source(TRUE, <<Mapping(0, 0, TRUE)>>)>>}

MaxSources == 2
SourceIdx == 1..MaxSources
OutputBuses == {0, 1, 5}

NoRoute == [source_idx |-> 0, profile_kind |-> "none", device_bus |-> 0]

Route(source_idx, source, m) ==
    [source_idx |-> source_idx, profile_kind |-> source.profile_kind,
     device_bus |-> m.device_bus]

\* Variant of the insert that keeps the route an output bus already has.
InsertRouteIfAbsent(routes, source_idx, source, m) ==
    IF routes[m.output_bus] = NoRoute
    THEN [routes EXCEPT ![m.output_bus] = Route(source_idx, source, m)]
    ELSE routes

\* transmit_routes.insert(mapping.output_bus, TransmitRoute {..}): a later
\* insert replaces the route an earlier one stored for the same output bus
InsertRoute(routes, source_idx, source, m) ==
    [routes EXCEPT ![m.output_bus] = Route(source_idx, source, m)]

RECURSIVE InsertRoutes(_, _, _, _)
\* the inner loop of new() over the mappings of one source
InsertRoutes(routes, source_idx, source, maps) ==
    IF maps = <<>> THEN routes
    ELSE InsertRoutes(IF Head(maps).enabled
                      THEN InsertRoute(routes, source_idx, source, Head(maps))
                      ELSE routes,
                      source_idx, source, Tail(maps))

RECURSIVE BuildRoutes(_, _, _)
BuildRoutes(routes, srcs, source_idx) ==
    IF source_idx > Len(srcs) THEN routes
    ELSE BuildRoutes(InsertRoutes(routes, source_idx, srcs[source_idx],
                                  srcs[source_idx].bus_mappings),
                     srcs, source_idx + 1)

\* the transmit_routes table new() builds; NoRoute marks an absent key
new_transmit_routes(srcs) ==
    BuildRoutes([b \in 0..7 |-> NoRoute], srcs, 1)

RECURSIVE apply_bus_mapping(_, _)
\* gvret_common::apply_bus_mapping: the first enabled mapping whose
\* device_bus is the frame's bus rewrites the bus; a frame with no such
\* mapping is dropped
apply_bus_mapping(f, maps) ==
    IF maps = <<>> THEN [keep |-> FALSE, frame |-> f]
    ELSE IF Head(maps).device_bus = f.bus /\ Head(maps).enabled
         THEN [keep |-> TRUE, frame |-> [f EXCEPT !.bus = Head(maps).output_bus]]
         ELSE apply_bus_mapping(f, Tail(maps))

\* Variant of the receive path that forwards every frame as read.
ForwardUnmapped(fs, maps) == fs

RECURSIVE MapFrames(_, _)
\* frames.filter_map(apply_bus_mapping): mapped frames, in order
MapFrames(fs, maps) ==
    IF fs = <<>> THEN <<>>
    ELSE LET r == apply_bus_mapping(Head(fs), maps) IN
         (IF r.keep THEN <<r.frame>> ELSE <<>>) \o MapFrames(Tail(fs), maps)

\* Variant of the sort that leaves the frames in arrival order.
KeepArrivalOrder(fs) == fs

RECURSIVE SortByTimestamp(_)
\* sort_by_key(timestamp_us): stable
SortByTimestamp(fs) ==
    IF fs = <<>> THEN <<>>
    ELSE LET m == CHOOSE i \in 1..Len(fs) :
                    /\ \A j \in 1..Len(fs) : fs[i].timestamp_us <= fs[j].timestamp_us
                    /\ \A j \in 1..(i - 1) : fs[j].timestamp_us # fs[i].timestamp_us
         IN <<fs[m]>> \o SortByTimestamp(SubSeq(fs, 1, m - 1) \o SubSeq(fs, m + 1, Len(fs)))

StreamEndedEvent(reason) ==
    [ev |-> "stream-ended", frames |-> <<>>, val |-> 0, reason |-> reason]
ErrorEvent == [ev |-> "can-bytes-error", frames |-> <<>>, val |-> 0, reason |-> "error"]
MergedFrames(fs) == [ev |-> "frame-message", frames |-> fs, val |-> 0, reason |-> ""]

\* ---- bounds of the merger runs
MaxReads == 1
MaxTx == 1
MaxFaults == 1
MERGE_CHANNEL_CAPACITY == 3
TRANSMIT_CHANNEL_CAPACITY == 1
MERGE_BATCH_SIZE == 2

NoMsg == [kind |-> "none", source_idx |-> 0, frames |-> <<>>, reason |-> ""]
FramesMsg(i, fs) == [kind |-> "Frames", source_idx |-> i, frames |-> fs, reason |-> ""]
EndedMsg(i, r) == [kind |-> "Ended", source_idx |-> i, frames |-> <<>>, reason |-> r]
ErrorMsg(i) == [kind |-> "Error", source_idx |-> i, frames |-> <<>>, reason |-> "error"]
TransmitReadyMsg(i) ==
    [kind |-> "TransmitReady", source_idx |-> i, frames |-> <<>>, reason |-> ""]

\* the frame a caller hands to transmit_frame, on output bus b
TransmitInput(b) ==
    [frame_id |-> 291, data |-> <<170>>, bus |-> b, is_extended |-> FALSE, is_fd |-> FALSE]
NoRequest == [id |-> 0, data |-> <<>>, bus |-> 0, src |-> 0]

\* what a device can deliver in one read: the records of one or two frames
DeviceReads ==
    {<<RxFrame(292, FALSE, 1, <<>>)>>,
     <<RxFrame(291, FALSE, 0, <<>>), RxFrame(292, FALSE, 1, <<>>)>>}
RECURSIVE Records(_)
Records(fs) ==
    IF fs = <<>> THEN <<>>
    ELSE DeviceRecord(Head(fs), <<0, 0, 0, 0>>) \o Records(Tail(fs))

\* a parsed frame with its host timestamp; src and dev_bus record where the
\* frame came from and are not fields of the program's FrameMessage
Stamped(out, ts, i) ==
    [k \in 1..Len(out) |->
        [frame_id |-> out[k].frame_id, bus |-> out[k].bus, timestamp_us |-> ts,
         src |-> i, dev_bus |-> out[k].bus]]

NoRead == [src |-> 0, got |-> <<>>, sent |-> <<>>]

\* MultiSourceReader::new(sources)
MultiNew(srcs) ==
    /\ sources = srcs
    /\ transmit_routes = new_transmit_routes(srcs)
    /\ mState = "Stopped"
    /\ stop_flag = FALSE
    /\ transmit_channels = {}
    /\ mCtl = "idle"
    /\ started = FALSE
    /\ stopReturned = FALSE
    /\ chan = <<>>
    /\ mergePc = "none"
    /\ active_sources = 0
    /\ pending_frames = <<>>
    /\ srcPc = [i \in SourceIdx |-> "none"]
    /\ outbox = [i \in SourceIdx |-> NoMsg]
    /\ nReads = 0
    /\ nFaults = 0
    /\ clock = 0
    /\ lastRead = NoRead
    /\ txPc = [i \in SourceIdx |-> "none"]
    /\ txq = [i \in SourceIdx |-> <<>>]
    /\ txCur = [i \in SourceIdx |-> NoRequest]
    /\ aborted = [i \in SourceIdx |-> FALSE]
    /\ written = <<>>
    /\ nTx = 0
    /\ callPc = "idle"
    /\ callReq = NoRequest
    /\ replies = {}
    /\ results = <<>>

MultiIdle == MultiNew(<<>>)

\* start(): rejects a running reader, clears the stop flag and the transmit
\* channels, creates the session's frame buffer and spawns the merge task.
\* The model starts a reader once.
MultiStart ==
    /\ sys = "multi"
    /\ mCtl = "idle"
    /\ callPc = "idle"
    /\ ~started
    /\ mState \notin {"Running", "Starting"}
    /\ stop_flag' = FALSE
    /\ transmit_channels' = {}
    /\ frames' = <<>>
    /\ mergePc' = "load"
    /\ mState' = "Running"
    /\ started' = TRUE
    /\ stopReturned' = FALSE
    /\ UNCHANGED <<sys, sources, transmit_routes, mCtl, chan, active_sources,
                   pending_frames, mulSrc, mulTx, mulCall, events, notMulti>>

\* stop(): sets the stop flag, then awaits the task handles
MultiStopBegin ==
    /\ sys = "multi"
    /\ mCtl = "idle"
    /\ callPc = "idle"
    /\ started
    /\ ~stopReturned
    /\ stop_flag' = TRUE
    /\ mCtl' = "stopping"
    /\ UNCHANGED <<sys, sources, transmit_routes, mState, transmit_channels, started,
                   stopReturned, mulMerge, mulSrc, mulTx, mulCall, frames, events, notMulti>>

\* stop(): the merge task has finished; the channel is recreated (the old
\* one and what it still holds are dropped) and the reader is Stopped
MultiStopJoin ==
    /\ sys = "multi"
    /\ mCtl = "stopping"
    /\ mergePc \in {"none", "done"}
    /\ chan' = <<>>
    /\ mState' = "Stopped"
    /\ mCtl' = "idle"
    /\ stopReturned' = TRUE
    /\ UNCHANGED <<sys, sources, transmit_routes, stop_flag, transmit_channels, started,
                   mergePc, active_sources, pending_frames, mulSrc, mulTx, mulCall,
                   frames, events, notMulti>>

\* run_merge_task up to its loop: load the settings, spawn a reader for
\* every source whose profile is found, count every configured source
MergeLoad ==
    /\ sys = "multi"
    /\ mergePc = "load"
    /\ \E settings_ok \in BOOLEAN :
        /\ ~settings_ok => nFaults < MaxFaults
        /\ nFaults' = IF settings_ok THEN nFaults ELSE nFaults + 1
        /\ IF settings_ok
           THEN /\ srcPc' = [i \in SourceIdx |->
                               IF i <= Len(sources) /\ sources[i].profile_found
                               THEN "connect" ELSE "none"]
                /\ active_sources' = Len(sources)
                /\ mergePc' = "loop"
                /\ UNCHANGED events
           ELSE /\ events' = Append(events, StreamEndedEvent("error"))
                /\ mergePc' = "done"
                /\ UNCHANGED <<srcPc, active_sources>>
    /\ UNCHANGED <<sys, mulCtl, chan, pending_frames, outbox, nReads, clock, lastRead, mulTx, mulCall, frames, notMulti>>

\* the loop condition; on exit the remaining pending frames are flushed
MergeCheck ==
    /\ sys = "multi"
    /\ mergePc = "loop"
    /\ IF ~stop_flag /\ active_sources > 0
       THEN /\ mergePc' = "recv"
            /\ UNCHANGED <<pending_frames, frames, events>>
       ELSE /\ mergePc' = "join"
            /\ pending_frames' = <<>>
            /\ IF pending_frames # <<>>
               THEN /\ frames' = frames \o SortByTimestamp(pending_frames)
                    /\ events' = Append(events, MergedFrames(SortByTimestamp(pending_frames)))
               ELSE UNCHANGED <<frames, events>>
    /\ UNCHANGED <<sys, mulCtl, chan, active_sources, mulSrc, mulTx, mulCall, notMulti>>

\* the effect of one received message on the counter, the transmit channels
\* and the pending frames
AfterMessage(msg) ==
    [active |-> IF msg.kind \in {"Ended", "Error"}
                THEN (IF active_sources > 0 THEN active_sources - 1 ELSE 0)
                ELSE active_sources,
     channels |-> CASE msg.kind \in {"Ended", "Error"} ->
                          transmit_channels \ {msg.source_idx}
                    [] msg.kind = "TransmitReady" ->
                          transmit_channels \cup {msg.source_idx}
                    [] OTHER -> transmit_channels,
     pending |-> pending_frames \o msg.frames,
     errors |-> IF msg.kind = "Error" THEN <<ErrorEvent>> ELSE <<>>]

\* one pass of the loop body: a message or the 50 ms timeout, then the emit
\* of the pending frames when the batch is large enough or 50 ms have passed.
\* A pass that times out with nothing pending and the stop flag clear ends
\* where it began and is not a step.
MergeRecv ==
    /\ sys = "multi"
    /\ mergePc = "recv"
    /\ chan # <<>> \/ pending_frames # <<>> \/ stop_flag
    /\ \E elapsed \in BOOLEAN :
        LET timeout == chan = <<>>
            r == IF timeout
                 THEN [active |-> active_sources, channels |-> transmit_channels,
                       pending |-> pending_frames, errors |-> <<>>]
                 ELSE AfterMessage(Head(chan))
            emit == r.pending # <<>>
                    /\ (Len(r.pending) >= MERGE_BATCH_SIZE \/ elapsed \/ timeout)
        IN  /\ timeout => elapsed
            /\ chan' = IF timeout THEN chan ELSE Tail(chan)
            /\ active_sources' = r.active
            /\ transmit_channels' = r.channels
            /\ IF emit
               THEN /\ frames' = frames \o SortByTimestamp(r.pending)
                    /\ events' = events \o r.errors
                                    \o <<MergedFrames(SortByTimestamp(r.pending))>>
                    /\ pending_frames' = <<>>
               ELSE /\ frames' = frames
                    /\ events' = events \o r.errors
                    /\ pending_frames' = r.pending
    /\ mergePc' = "loop"
    /\ UNCHANGED <<sys, sources, transmit_routes, mState, stop_flag, mCtl, started,
                   stopReturned, mulSrc, mulTx, mulCall, notMulti>>

\* after the loop: await the source tasks, then emit stream-ended
MergeJoin ==
    /\ sys = "multi"
    /\ mergePc = "join"
    /\ \A i \in SourceIdx : srcPc[i] \in {"none", "done"}
    /\ events' = Append(events, StreamEndedEvent(IF stop_flag THEN "stopped" ELSE "complete"))
    /\ mergePc' = "done"
    /\ UNCHANGED <<sys, mulCtl, chan, active_sources, pending_frames, mulSrc, mulTx,
                   mulCall, frames, notMulti>>

\* run_gvret_tcp_source: connect and enter binary mode; a failure is reported
\* with an Error message and the task returns
SrcConnect(i) ==
    /\ sys = "multi"
    /\ srcPc[i] = "connect"
    /\ sources[i].profile_kind = "gvret_tcp"
    /\ \E connected \in BOOLEAN :
        /\ ~connected => nFaults < MaxFaults
        /\ nFaults' = IF connected THEN nFaults ELSE nFaults + 1
        /\ IF connected
           THEN /\ outbox' = [outbox EXCEPT ![i] = TransmitReadyMsg(i)]
                /\ srcPc' = [srcPc EXCEPT ![i] = "send"]
           ELSE /\ outbox' = [outbox EXCEPT ![i] = ErrorMsg(i)]
                /\ srcPc' = [srcPc EXCEPT ![i] = "send_last"]
    /\ UNCHANGED <<sys, mulCtl, mulMerge, nReads, clock, lastRead, mulTx, mulCall,
                   frames, events, notMulti>>

\* Variant of the test below in which silent mode does not matter.
CreatesTransmitChannelAlways(source) == TRUE

\* run_slcan_source creates and announces a transmit channel only if the
\* source is not in silent mode
CreatesTransmitChannel(source) == ~source.silent_mode

\* run_slcan_source up to its read loop: the bitrate command, the port, its
\* setup; a failure is reported with an Error message and the task returns.
\* Then the transmit channel, unless the source is silent.
SlcanSrcConnect(i) ==
    /\ sys = "multi"
    /\ srcPc[i] = "connect"
    /\ sources[i].profile_kind = "slcan"
    /\ \E connected \in BOOLEAN :
        /\ ~connected => nFaults < MaxFaults
        /\ nFaults' = IF connected THEN nFaults ELSE nFaults + 1
        /\ IF ~connected
           THEN /\ outbox' = [outbox EXCEPT ![i] = ErrorMsg(i)]
                /\ srcPc' = [srcPc EXCEPT ![i] = "send_last"]
                /\ UNCHANGED txPc
           ELSE IF CreatesTransmitChannel(sources[i])
           THEN /\ outbox' = [outbox EXCEPT ![i] = TransmitReadyMsg(i)]
                /\ srcPc' = [srcPc EXCEPT ![i] = "send"]
                /\ UNCHANGED txPc
           ELSE /\ srcPc' = [srcPc EXCEPT ![i] = "read"]
                /\ txPc' = [txPc EXCEPT ![i] = "absent"]
                /\ UNCHANGED outbox
    /\ UNCHANGED <<sys, mulCtl, mulMerge, nReads, clock, lastRead, txq, txCur, aborted,
                   written, mulCall, frames, events, notMulti>>

\* requests dropped with the receiver: their result senders are dropped too
Closed(reqs) == {[id |-> reqs[k].id, res |-> "closed"] : k \in 1..Len(reqs)}

\* tx.send(msg).await and tx.blocking_send(msg) complete when the merge
\* channel has room.  A GVRET source spawns its transmit task after the send
\* of TransmitReady; the read loop of an slcan source holds the receiver of
\* its transmit channel and drops it when it returns, after its last send.
\* An slcan source that has sent Error goes on to send Ended.
SrcSend(i) ==
    /\ sys = "multi"
    /\ srcPc[i] \in {"send", "send_error", "send_last"}
    /\ Len(chan) < MERGE_CHANNEL_CAPACITY
    /\ chan' = Append(chan, outbox[i])
    /\ outbox' = [outbox EXCEPT ![i] =
                    IF srcPc[i] = "send_error" THEN EndedMsg(i, "stopped") ELSE NoMsg]
    /\ srcPc' = [srcPc EXCEPT ![i] = CASE srcPc[i] = "send" -> "read"
                                      [] srcPc[i] = "send_error" -> "send_last"
                                      [] OTHER -> "done"]
    /\ IF outbox[i].kind = "TransmitReady"
       THEN /\ txPc' = [txPc EXCEPT ![i] = IF sources[i].profile_kind = "slcan"
                                           THEN "inline" ELSE "spawned"]
            /\ UNCHANGED <<txq, replies>>
       ELSE IF srcPc[i] = "send_last" /\ txPc[i] \in {"inline", "absent"}
       THEN /\ txPc' = [txPc EXCEPT ![i] = "done"]
            /\ txq' = [txq EXCEPT ![i] = <<>>]
            /\ replies' = replies \cup Closed(txq[i])
       ELSE UNCHANGED <<txPc, txq, replies>>
    /\ UNCHANGED <<sys, mulCtl, mergePc, active_sources, pending_frames, nReads, nFaults,
                   clock, lastRead, txCur, aborted, written, nTx, callPc, callReq, results,
                   frames, events, notMulti>>

\* one pass of the read loop: the stop flag ends it (the transmit task is
\* aborted and Ended("stopped") sent); otherwise the read returns bytes, end
\* of stream or an error (a read that times out changes nothing).
\* abort() ends a transmit task that has not been polled yet; one that is
\* running goes on to its next await.
SrcRead(i) ==
    /\ sys = "multi"
    /\ srcPc[i] = "read"
    /\ sources[i].profile_kind = "gvret_tcp"
    /\ IF stop_flag
       THEN /\ aborted' = [aborted EXCEPT ![i] = TRUE]
            /\ IF txPc[i] = "spawned"
               THEN /\ txPc' = [txPc EXCEPT ![i] = "done"]
                    /\ txq' = [txq EXCEPT ![i] = <<>>]
                    /\ replies' = replies \cup Closed(txq[i])
               ELSE UNCHANGED <<txPc, txq, replies>>
            /\ outbox' = [outbox EXCEPT ![i] = EndedMsg(i, "stopped")]
            /\ srcPc' = [srcPc EXCEPT ![i] = "send_last"]
            /\ UNCHANGED <<nReads, nFaults, clock, lastRead>>
       ELSE /\ UNCHANGED <<aborted, txPc, txq, replies>>
            /\ \/ /\ nReads < MaxReads
                  /\ \E fs \in DeviceReads :
                      LET got == Stamped(parse_gvret_frames(Records(fs)).out, clock + 1, i)
                          mapped_frames == MapFrames(got, sources[i].bus_mappings)
                      IN  /\ clock' = clock + 1
                          /\ nReads' = nReads + 1
                          /\ UNCHANGED nFaults
                          /\ lastRead' = [src |-> i, got |-> got, sent |-> mapped_frames]
                          /\ IF mapped_frames # <<>>
                             THEN /\ outbox' = [outbox EXCEPT ![i] = FramesMsg(i, mapped_frames)]
                                  /\ srcPc' = [srcPc EXCEPT ![i] = "send"]
                             ELSE UNCHANGED <<outbox, srcPc>>
               \/ /\ nFaults < MaxFaults
                  /\ nFaults' = nFaults + 1
                  /\ \E msg \in {EndedMsg(i, "disconnected"), ErrorMsg(i)} :
                        outbox' = [outbox EXCEPT ![i] = msg]
                  /\ srcPc' = [srcPc EXCEPT ![i] = "send_last"]
                  /\ UNCHANGED <<nReads, clock, lastRead>>
    /\ UNCHANGED <<sys, mulCtl, mulMerge, txCur, written, nTx, callPc, callReq, results,
                   frames, events, notMulti>>

\* the lines an slcan device delivers: a data frame, and one that is too
\* short to parse
SlcanSourceLines == {<<"t", "1", "2", "3", "0">>, <<"t", "1", "2">>}

\* the frame of a line, stamped, or nothing when the line does not parse
SlcanLineFrames(line, ts, i) ==
    IF parse_slcan_frame(line).kind = "Some"
    THEN Stamped(<<parse_slcan_frame(line)>>, ts, i)
    ELSE <<>>

\* one pass of the read loop of run_slcan_source: the stop flag ends it;
\* otherwise the requests on the transmit channel are written to the port
\* and answered, then the port is read: a line, the end of the stream or an
\* error (a read that times out changes nothing).  After the loop the task
\* sends Ended("stopped"), whatever ended the loop.
SlcanSrcRead(i) ==
    /\ sys = "multi"
    /\ srcPc[i] = "read"
    /\ sources[i].profile_kind = "slcan"
    /\ IF stop_flag
       THEN /\ outbox' = [outbox EXCEPT ![i] = EndedMsg(i, "stopped")]
            /\ srcPc' = [srcPc EXCEPT ![i] = "send_last"]
            /\ UNCHANGED <<nReads, nFaults, clock, lastRead, txq, written, replies>>
       ELSE IF txPc[i] = "inline" /\ txq[i] # <<>>
       THEN /\ \E write_ok \in BOOLEAN :
                /\ ~write_ok => nFaults < MaxFaults
                /\ nFaults' = IF write_ok THEN nFaults ELSE nFaults + 1
                /\ written' = IF write_ok
                              THEN Append(written, [src |-> i, req |-> Head(txq[i]),
                                                    after_stop |-> stopReturned])
                              ELSE written
                /\ replies' = replies \cup
                      {[id |-> Head(txq[i]).id, res |-> IF write_ok THEN "ok" ELSE "error"]}
            /\ txq' = [txq EXCEPT ![i] = Tail(txq[i])]
            /\ UNCHANGED <<outbox, srcPc, nReads, clock, lastRead>>
       ELSE /\ UNCHANGED <<txq, written, replies>>
            /\ \/ /\ nReads < MaxReads
                  /\ \E line \in SlcanSourceLines :
                      LET got == SlcanLineFrames(line, clock + 1, i)
                          mapped_frames == MapFrames(got, sources[i].bus_mappings)
                      IN  /\ clock' = clock + 1
                          /\ nReads' = nReads + 1
                          /\ UNCHANGED nFaults
                          /\ lastRead' = [src |-> i, got |-> got, sent |-> mapped_frames]
                          /\ IF mapped_frames # <<>>
                             THEN /\ outbox' = [outbox EXCEPT ![i] = FramesMsg(i, mapped_frames)]
                                  /\ srcPc' = [srcPc EXCEPT ![i] = "send"]
                             ELSE UNCHANGED <<outbox, srcPc>>
               \/ /\ nFaults < MaxFaults
                  /\ nFaults' = nFaults + 1
                  /\ \/ /\ outbox' = [outbox EXCEPT ![i] = EndedMsg(i, "stopped")]
                        /\ srcPc' = [srcPc EXCEPT ![i] = "send_last"]
                     \/ /\ outbox' = [outbox EXCEPT ![i] = ErrorMsg(i)]
                        /\ srcPc' = [srcPc EXCEPT ![i] = "send_error"]
                  /\ UNCHANGED <<nReads, clock, lastRead>>
    /\ UNCHANGED <<sys, mulCtl, mulMerge, txPc, txCur, aborted, nTx, callPc, callReq,
                   results, frames, events, notMulti>>

\* a sender of source i's transmit channel is still alive: in the shared map,
\* in an undelivered TransmitReady message, or cloned by a waiting caller
SenderAlive(i) ==
    \/ i \in transmit_channels
    \/ \E k \in 1..Len(chan) : chan[k].kind = "TransmitReady" /\ chan[k].source_idx = i
    \/ callPc = "wait" /\ callReq.src = i

\* the transmit task's loop condition
TxCheck(i) ==
    /\ sys = "multi"
    /\ txPc[i] \in {"spawned", "loop"}
    /\ IF stop_flag
       THEN /\ txPc' = [txPc EXCEPT ![i] = "done"]
            /\ txq' = [txq EXCEPT ![i] = <<>>]
            /\ replies' = replies \cup Closed(txq[i])
       ELSE /\ txPc' = [txPc EXCEPT ![i] = "recv"]
            /\ UNCHANGED <<txq, replies>>
    /\ UNCHANGED <<sys, mulCtl, mulMerge, mulSrc, txCur, aborted, written,
                   nTx, callPc, callReq, results, frames, events, notMulti>>

\* transmit_rx.recv_timeout(10 ms): a request, Disconnected, or the timeout.
\* A pass that times out with the stop flag clear ends where it began and is
\* not a step.
TxRecv(i) ==
    /\ sys = "multi"
    /\ txPc[i] = "recv"
    /\ txq[i] # <<>> \/ ~SenderAlive(i) \/ stop_flag
    /\ IF txq[i] # <<>>
       THEN /\ txCur' = [txCur EXCEPT ![i] = Head(txq[i])]
            /\ txq' = [txq EXCEPT ![i] = Tail(txq[i])]
            /\ txPc' = [txPc EXCEPT ![i] = "write"]
       ELSE /\ txPc' = [txPc EXCEPT ![i] = IF SenderAlive(i) THEN "loop" ELSE "done"]
            /\ UNCHANGED <<txCur, txq>>
    /\ UNCHANGED <<sys, mulCtl, mulMerge, mulSrc, aborted, written, mulCall,
                   frames, events, notMulti>>

\* the request is written to the device and answered.  A task that was
\* aborted is dropped at one of the awaits of this step or runs through it,
\* as the runtime schedules it.
TxWrite(i) ==
    /\ sys = "multi"
    /\ txPc[i] = "write"
    /\ \/ /\ aborted[i]
          /\ txPc' = [txPc EXCEPT ![i] = "done"]
          /\ txq' = [txq EXCEPT ![i] = <<>>]
          /\ replies' = replies \cup Closed(<<txCur[i]>> \o txq[i])
          /\ UNCHANGED <<written, nFaults>>
       \/ /\ \E write_ok \in BOOLEAN :
              /\ ~write_ok => nFaults < MaxFaults
              /\ nFaults' = IF write_ok THEN nFaults ELSE nFaults + 1
              /\ written' = IF write_ok
                            THEN Append(written, [src |-> i, req |-> txCur[i],
                                                  after_stop |-> stopReturned])
                            ELSE written
              /\ replies' = replies \cup
                    {[id |-> txCur[i].id, res |-> IF write_ok THEN "ok" ELSE "error"]}
          /\ txPc' = [txPc EXCEPT ![i] = "loop"]
          /\ UNCHANGED txq
    /\ txCur' = [txCur EXCEPT ![i] = NoRequest]
    /\ UNCHANGED <<sys, mulCtl, mulMerge, srcPc, outbox, nReads, clock, lastRead, aborted,
                   nTx, callPc, callReq, results, frames, events, notMulti>>

\* the ASCII code of a character of an slcan command
Ascii(c) ==
    CASE c = "t" -> 116
      [] c = "T" -> 84
      [] c = "\r" -> 13
      [] to_digit(c) < 10 -> 48 + to_digit(c)
      [] OTHER -> 55 + to_digit(c)

\* encode_slcan_transmit_frame: prefix, id, dlc digit, the first dlc data
\* bytes, CR, as bytes
encode_slcan_transmit_frame(f) ==
    LET dlc == Min(Len(f.data), 8)
        cmd == encode_slcan_id(f) \o FormatHex(dlc, 1) \o FormatBytes(SubSeq(f.data, 1, dlc))
                   \o <<"\r">>
    IN [k \in 1..Len(cmd) |-> Ascii(cmd[k])]

\* the bytes transmit_frame queues for a source of the given profile kind
EncodeTransmit(profile_kind, routed_frame) ==
    IF profile_kind = "slcan" THEN encode_slcan_transmit_frame(routed_frame)
    ELSE encode_gvret_frame(routed_frame)

\* Variant of the checks of transmit_frame without the lookup of the
\* source's transmit channel in the shared map.
TransmitFailureNoLookup(route, routed_frame) ==
    CASE route = NoRoute -> "Err: no source configured for bus"
      [] route.profile_kind = "gvret_tcp" /\ ~validate_gvret_frame(routed_frame) ->
            "Ok: error result"
      [] txPc[route.source_idx] = "done" -> "Err: failed to queue"
      [] Len(txq[route.source_idx]) >= TRANSMIT_CHANNEL_CAPACITY -> "Err: failed to queue"
      [] OTHER -> ""

\* the checks of transmit_frame before the request is queued: the result the
\* call returns early with, or "" when the request goes on the channel
TransmitFailure(route, routed_frame) ==
    CASE route = NoRoute -> "Err: no source configured for bus"
      [] route.source_idx \notin transmit_channels -> "Err: no transmit channel"
      [] route.profile_kind = "gvret_tcp" /\ ~validate_gvret_frame(routed_frame) ->
            "Ok: error result"
      [] txPc[route.source_idx] = "done" -> "Err: failed to queue"
      [] Len(txq[route.source_idx]) >= TRANSMIT_CHANNEL_CAPACITY -> "Err: failed to queue"
      [] OTHER -> ""

\* transmit_frame up to the wait for the result: route lookup, bus rewrite,
\* channel lookup, validation, encoding, try_send
MultiTransmit(b) ==
    /\ sys = "multi"
    /\ mCtl = "idle"
    /\ callPc = "idle"
    /\ nTx < MaxTx
    /\ nTx' = nTx + 1
    /\ LET tx_frame == TransmitInput(b)
           route == transmit_routes[b]
           routed_frame == [tx_frame EXCEPT !.bus = route.device_bus]
           request == [id |-> nTx + 1,
                       data |-> EncodeTransmit(route.profile_kind, routed_frame),
                       bus |-> b, src |-> route.source_idx]
           failure == TransmitFailure(route, routed_frame)
       IN IF failure # ""
          THEN /\ results' = Append(results, failure)
               /\ UNCHANGED <<txq, callPc, callReq>>
          ELSE /\ txq' = [txq EXCEPT ![route.source_idx] = Append(@, request)]
               /\ callPc' = "wait"
               /\ callReq' = request
               /\ UNCHANGED results
    /\ UNCHANGED <<sys, mulCtl, mulMerge, mulSrc, txPc, txCur, aborted, written, replies,
                   frames, events, notMulti>>

\* Variant of the queue after a call gave up: the request is taken back.
Withdrawn(q, req) == SelectSeq(q, LAMBDA r : r # req)

\* the transmit queue after recv_timeout(500 ms) failed: transmit_frame
\* returns the error and drops result_rx; the request it sent stays queued
LeftQueued(q, req) == q

\* transmit_frame: result_rx.recv_timeout(500 ms) returns the result, or
\* fails because the result sender was dropped or the time is up; a request
\* that timed out stays where it is
MultiTransmitResult ==
    /\ sys = "multi"
    /\ callPc = "wait"
    /\ \/ \E r \in replies :
            /\ r.id = callReq.id
            /\ results' = Append(results, CASE r.res = "ok" -> "Ok: success"
                                            [] r.res = "error" -> "Err: write error"
                                            [] OTHER -> "Err: timeout or channel closed")
            /\ UNCHANGED txq
       \/ /\ \A r \in replies : r.id # callReq.id
          /\ results' = Append(results, "Err: timeout or channel closed")
          /\ txq' = [i \in DOMAIN txq |-> LeftQueued(txq[i], callReq)]
    /\ callPc' = "idle"
    /\ callReq' = NoRequest
    /\ UNCHANGED <<sys, mulCtl, mulMerge, mulSrc, txPc, txCur, aborted, written, nTx, replies,
                   frames, events, notMulti>>

\* ---- io/slcan.rs: the frames and lines the codec is run on
SlcanStdIds == {291, 2047}
SlcanExtIds == {291, 305419896, 536870911}
SlcanPayloads == {<<>>, <<222>>, <<222, 173, 190, 239>>, <<0, 255, 16, 1, 2, 3, 4, 10>>}
SlcanRtrDlcs == {0, 4, 8}

\* a FrameMessage handed to encode_slcan_frame; is_rtr tells whether the
\* caller means a remote frame (FrameMessage has no such field: a remote
\* frame is one with a dlc and no bytes, as parse_slcan_frame builds it)
SlcanFrame(id, ext, dlc, bytes, rtr) ==
    [kind |-> "Some", frame_id |-> id, bus |-> 0, dlc |-> dlc, bytes |-> bytes,
     is_extended |-> ext, is_fd |-> FALSE, is_rtr |-> rtr]
SlcanFrames ==
    {SlcanFrame(id, FALSE, Len(b), b, FALSE) : id \in SlcanStdIds, b \in SlcanPayloads}
    \cup {SlcanFrame(id, TRUE, Len(b), b, FALSE) : id \in SlcanExtIds, b \in SlcanPayloads}
    \cup {SlcanFrame(id, FALSE, d, <<>>, TRUE) : id \in SlcanStdIds, d \in SlcanRtrDlcs}
    \cup {SlcanFrame(id, TRUE, d, <<>>, TRUE) : id \in SlcanExtIds, d \in SlcanRtrDlcs}

\* lines an adapter can send: frames of the four kinds, replies that are not
\* frames, ids beyond eleven bits, short and malformed lines
LinePrefixes == {"t", "T", "r", "R", "z"}
LineIds == {<<"1", "2", "3">>, <<"F", "F", "F">>, <<"+", "1", "a">>,
            <<"1", "2", "3", "4", "5", "6", "7", "8">>}
LineDlcs == {"0", "4", "9", "x"}
LineData == {<<>>, <<"A", "A", "b", "b", "C", "C", "D", "D">>, <<"A", "A", "B">>,
             <<"G", "1", "0", "0", "0", "0", "0", "0">>}
\* (an eight-digit id field is kept below 2^31)
DeviceLines ==
    {<<p>> \o id \o <<d>> \o data :
        p \in LinePrefixes, id \in LineIds, d \in LineDlcs, data \in LineData}
      \ {<<p>> \o <<"F", "F", "F">> \o <<d>> \o data :
            p \in {"T", "R"}, d \in LineDlcs, data \in LineData}

\* what a port delivers to a read loop: a frame line whose first three
\* bytes are followed by a BEL, by another control character, by a byte
\* above 0x7F or by nothing, and one that follows more bytes than a line
\* may hold
LineHead == <<"t", "1", "2">>
LineRest == <<"3", "0", "\r">>
Breakers == {<<>>, <<"BEL">>, <<"TAB">>, <<"HIGH">>}
LongRun == [k \in 1..(SLCAN_LINE_LIMIT - 2) |-> "0"]
StreamBytes ==
    {LineHead \o b \o LineRest : b \in Breakers}
        \cup {LineHead \o LongRun \o LineHead \o LineRest}
ReadLoops == {"run_slcan_stream_blocking", "run_slcan_source"}
NoWire == [reader |-> "none", bytes |-> <<>>]
\* bytes one read returns at most
MaxSlcanRead == 3

SlcanIdle ==
    /\ slIn = NoFrame
    /\ slPc = "idle"
    /\ slLine = <<>>
    /\ slOut = NoFrame
    /\ slWire = NoWire
    /\ slPos = 0
    /\ slFrames = <<>>

SlcanInit ==
    /\ slOut = NoFrame
    /\ slPos = 0
    /\ slFrames = <<>>
    /\ \/ \E f \in SlcanFrames :
            /\ slIn = f
            /\ slPc = "tx"
            /\ slLine = <<>>
            /\ slWire = NoWire
       \/ \E line \in DeviceLines :
            /\ slIn = NoFrame
            /\ slPc = "rx"
            /\ slLine = line
            /\ slWire = NoWire
       \/ \E r \in ReadLoops, bytes \in StreamBytes :
            /\ slIn = NoFrame
            /\ slPc = "read"
            /\ slLine = <<>>
            /\ slWire = [reader |-> r, bytes |-> bytes]

\* encode_slcan_frame(frame), then the line without its trailing CR
SlcanEncode ==
    /\ sys = "slcan"
    /\ slPc = "tx"
    /\ LET encoded == encode_slcan_frame(slIn)
       IN slLine' = SubSeq(encoded, 1, Len(encoded) - 1)
    /\ slPc' = "rx"
    /\ UNCHANGED <<sys, slIn, slOut, slWire, slPos, slFrames, notSlcan>>

\* parse_slcan_frame(line)
SlcanParse ==
    /\ sys = "slcan"
    /\ slPc = "rx"
    /\ slOut' = parse_slcan_frame(slLine)
    /\ slPc' = "done"
    /\ UNCHANGED <<sys, slIn, slLine, slWire, slPos, slFrames, notSlcan>>

\* one read of the port by a read loop: n bytes, run through the loop's
\* line buffer
SlcanRead(n) ==
    /\ sys = "slcan"
    /\ slPc = "read"
    /\ n \in 1..(Len(slWire.bytes) - slPos)
    /\ n <= MaxSlcanRead
    /\ LET bytes == SubSeq(slWire.bytes, slPos + 1, slPos + n)
           st == [line_buf |-> slLine, out |-> slFrames]
           r == IF slWire.reader = "run_slcan_stream_blocking"
                THEN ReaderBytes(st, bytes)
                ELSE SourceChunk(st, bytes)
       IN /\ slLine' = r.line_buf
          /\ slFrames' = r.out
    /\ slPos' = slPos + n
    /\ slPc' = IF slPos + n = Len(slWire.bytes) THEN "eof" ELSE "read"
    /\ UNCHANGED <<sys, slIn, slOut, slWire, notSlcan>>

(***************************************************************************)
(* io/gvret_tcp.rs: GvretReader, its stream task, the transmit task the    *)
(* stream task spawns, and callers of transmit_frame.  transmit_frame      *)
(* takes &self, so calls may overlap each other; start() and stop() take   *)
(* &mut self and overlap no other call.                                    *)
(***************************************************************************)
Callers == {1, 2}
MaxStarts == 2
MaxGvretReads == 1
MaxGvretFaults == 1
GVRET_TRANSMIT_CAPACITY == 1
NoLimit == 0 - 1
NoOverride == 0 - 1

\* the readers the model builds: GvretReader with a (limit, bus_override)
\* pair; SlcanReader in normal and in silent mode; GvretUsbReader
TcpConfig(limit, bus_override) ==
    [kind |-> "gvret_tcp", limit |-> limit, bus_override |-> bus_override,
     silent_mode |-> FALSE]
PortConfig(kind, silent_mode) ==
    [kind |-> kind, limit |-> NoLimit, bus_override |-> NoOverride,
     silent_mode |-> silent_mode]
GvretConfigs ==
    {TcpConfig(NoLimit, NoOverride), TcpConfig(1, 2), TcpConfig(0, NoOverride)}
PortConfigs ==
    {PortConfig("slcan", FALSE), PortConfig("slcan", TRUE), PortConfig("gvret_usb", FALSE)}

\* the frames a caller hands to transmit_frame: one the device accepts, one
\* on a bus GVRET does not have, a classic frame of 9 bytes, an FD frame of
\* 65 bytes
TxShapes == {"valid", "bus", "long", "fd_long"}
TxPayload(n) == [k \in 1..n |-> 170]

\* the frame of the given shape that caller c hands to transmit_frame
GvretTxFrame(c, shape) ==
    [frame_id |-> 256 + c,
     data |-> CASE shape = "long" -> TxPayload(9)
                [] shape = "fd_long" -> TxPayload(65)
                [] OTHER -> TxPayload(1),
     bus |-> IF shape = "bus" THEN 5 ELSE 0,
     is_extended |-> FALSE, is_fd |-> shape = "fd_long"]

\* the TX echo transmit_frame builds for a frame it has sent
TxEcho(f, timestamp_us) ==
    [frame_id |-> f.frame_id, bus |-> f.bus, dlc |-> Len(f.data) % 256, bytes |-> f.data,
     is_extended |-> f.is_extended, is_fd |-> f.is_fd, timestamp_us |-> timestamp_us,
     direction |-> "tx"]

\* the frames of one read: parsed frames with the host time, the bus
\* override applied
frame_only(out, timestamp_us, bus_override) ==
    [k \in 1..Len(out) |->
        [frame_id |-> out[k].frame_id,
         bus |-> IF bus_override # NoOverride THEN bus_override ELSE out[k].bus,
         dlc |-> out[k].dlc, bytes |-> out[k].bytes, is_extended |-> out[k].is_extended,
         is_fd |-> out[k].is_fd, timestamp_us |-> timestamp_us, direction |-> "none"]]

\* how many of n parsed frames the limit lets through
frames_to_emit(limit, total, n) ==
    IF limit = NoLimit THEN n
    ELSE IF limit - total <= 0 THEN 0
    ELSE Min(limit - total, n)

CanBytesError == [ev |-> "can-bytes-error", frames |-> <<>>, val |-> 0, reason |-> "error"]

\* the order in which transmit_frame handles the echo of a frame it has sent
EmitThenAppend == <<"emit", "append">>
EchoOrder == <<"append", "emit">>
NextEchoStep(step) == IF step = EchoOrder[1] THEN EchoOrder[2] ELSE "done"

\* GvretReader::new
GvretNew(config) ==
    /\ gConfig = config
    /\ gState = "Stopped"
    /\ gCancel = FALSE
    /\ gSender = FALSE
    /\ gHandle = FALSE
    /\ gWriter = FALSE
    /\ gCtl = "idle"
    /\ nStart = 0
    /\ gStartRes = "none"
    /\ gPc = "none"
    /\ gReason = "disconnected"
    /\ total_frames = 0
    /\ gReads = 0
    /\ gFaults = 0
    /\ gClock = 0
    /\ gTxPc = "none"
    /\ gTxq = <<>>
    /\ gTxCur = 0
    /\ gAborted = FALSE
    /\ gWritten = <<>>
    /\ gCallPc = [c \in Callers |-> "idle"]
    /\ gCallFrame = [c \in Callers |-> GvretTxFrame(c, "valid")]
    /\ gCallTime = [c \in Callers |-> 0]
    /\ gReplies = {}
    /\ gResults = [c \in Callers |-> ""]

GvretIdle == GvretNew(TcpConfig(NoLimit, NoOverride))

\* no transmit_frame call is in progress
NoCallInProgress == \A c \in Callers : gCallPc[c] \in {"idle", "done"}

\* start(): rejected while the state is Running; otherwise clears the cancel
\* flag, replaces the transmit channel and spawns the stream task.  The
\* model starts a reader again only once the transmit task of the previous
\* stream has ended.
GvretStart ==
    /\ sys = "gvret"
    /\ gConfig.kind = "gvret_tcp"
    /\ gCtl = "idle"
    /\ NoCallInProgress
    /\ nStart < MaxStarts
    /\ nStart' = nStart + 1
    /\ IF gState = "Running"
       THEN /\ gStartRes' = "rejected"
            /\ UNCHANGED <<gState, gCancel, gSender, gHandle, gTaskVars, gTxVars>>
       ELSE /\ gTxPc \in {"none", "done"}
            /\ gStartRes' = "ok"
            /\ gCancel' = FALSE
            /\ gSender' = TRUE
            /\ gHandle' = TRUE
            /\ gState' = "Running"
            /\ gPc' = "connect"
            /\ gReason' = "disconnected"
            /\ total_frames' = 0
            /\ gTxPc' = "none"
            /\ gTxq' = <<>>
            /\ gTxCur' = 0
            /\ gAborted' = FALSE
            /\ UNCHANGED <<gReads, gWritten>>
    /\ UNCHANGED <<sys, gConfig, gCtl, gWriter, gFaults, gClock, gCallVars,
                   frames, events, notGvret>>

\* stop(): sets the cancel flag and clears the transmit sender, then awaits
\* the stream task
GvretStopBegin ==
    /\ sys = "gvret"
    /\ gCtl = "idle"
    /\ NoCallInProgress
    /\ nStart > 0
    /\ gState = "Running"
    /\ gCancel' = TRUE
    /\ gSender' = FALSE
    /\ gCtl' = "stopping"
    /\ UNCHANGED <<sys, gConfig, gState, gHandle, nStart, gStartRes, gTaskVars, gTxVars,
                   gCallVars, gWriter, gFaults, gClock, frames, events, notGvret>>

\* stop(): the stream task has finished; the writer is cleared and the
\* reader is Stopped
GvretStopJoin ==
    /\ sys = "gvret"
    /\ gCtl = "stopping"
    /\ ~gHandle \/ gPc = "done"
    /\ gHandle' = FALSE
    /\ gWriter' = FALSE
    /\ gState' = "Stopped"
    /\ gCtl' = "idle"
    /\ UNCHANGED <<sys, gConfig, gCancel, gSender, nStart, gStartRes, gTaskVars, gTxVars,
                   gCallVars, gFaults, gClock, frames, events, notGvret>>

\* requests dropped with the transmit receiver: their callers find the
\* result channel closed
GvretClosed(reqs) == {[id |-> reqs[k], res |-> "closed"] : k \in 1..Len(reqs)}

\* the raw payload event emitted for every frame before the batch
CanBytes(fs) ==
    [k \in 1..Len(fs) |->
        [ev |-> "can-bytes", frames |-> <<>>, val |-> fs[k].frame_id, reason |-> ""]]

\* the stream task: create the session's frame buffer, connect with a
\* timeout, store the writer, send the handshake, spawn the transmit task.
\* A failed or timed-out connect is reported and ends the task, which drops
\* the transmit receiver.
GvretConnect ==
    /\ sys = "gvret"
    /\ gPc = "connect"
    /\ frames' = <<>>
    /\ \E connected \in BOOLEAN :
        /\ ~connected => gFaults < MaxGvretFaults
        /\ gFaults' = IF connected THEN gFaults ELSE gFaults + 1
        /\ IF connected
           THEN /\ gWriter' = TRUE
                /\ gTxPc' = "spawned"
                /\ gPc' = "read"
                /\ UNCHANGED <<events, gReason, gTxq, gReplies>>
           ELSE /\ events' = events \o <<CanBytesError, StreamEndedEvent("error")>>
                /\ gReason' = "error"
                /\ gPc' = "done"
                /\ gTxq' = <<>>
                /\ gReplies' = gReplies \cup GvretClosed(gTxq)
                /\ UNCHANGED <<gWriter, gTxPc>>
    /\ UNCHANGED <<sys, gCtlVars, total_frames, gReads, gClock, gTxCur, gAborted, gWritten,
                   gCallPc, gCallFrame, gCallTime, gResults, notGvret>>

\* one pass of the read loop: the cancel flag ends it; otherwise the read
\* returns bytes, end of stream or an error (a read that times out changes
\* nothing).  Parsed frames are cut to the limit, buffered and emitted.
GvretRead ==
    /\ sys = "gvret"
    /\ gPc = "read"
    /\ IF gCancel
       THEN /\ gPc' = "exit"
            /\ UNCHANGED <<gReason, total_frames, gReads, gFaults, gClock, frames, events>>
       ELSE \/ /\ gReads < MaxGvretReads
               /\ \E fs \in DeviceReads :
                   LET out == parse_gvret_frames(Records(fs)).out
                       n == frames_to_emit(gConfig.limit, total_frames, Len(out))
                       batch == frame_only(SubSeq(out, 1, n), gClock + 1, gConfig.bus_override)
                       reached == gConfig.limit # NoLimit /\ total_frames + n >= gConfig.limit
                   IN  /\ gReads' = gReads + 1
                       /\ gClock' = gClock + 1
                       /\ UNCHANGED gFaults
                       /\ IF n = 0
                          THEN /\ gReason' = "complete"
                               /\ gPc' = "exit"
                               /\ UNCHANGED <<total_frames, frames, events>>
                          ELSE /\ frames' = frames \o batch
                               /\ events' = events \o CanBytes(batch) \o <<MergedFrames(batch)>>
                               /\ total_frames' = total_frames + n
                               /\ gReason' = IF reached THEN "complete" ELSE gReason
                               /\ gPc' = IF reached THEN "exit" ELSE "read"
            \/ /\ gFaults < MaxGvretFaults
               /\ gFaults' = gFaults + 1
               /\ gPc' = "exit"
               /\ \/ UNCHANGED <<gReason, events>>
                  \/ /\ gReason' = "error"
                     /\ events' = Append(events, CanBytesError)
               /\ UNCHANGED <<total_frames, gReads, gClock, frames>>
    /\ UNCHANGED <<sys, gCtlVars, gTxVars, gCallVars, gWriter, notGvret>>

\* after the read loop: abort the transmit task (one that was never polled
\* ends here, one that is running goes on to its next await), name the
\* reason, take the writer and emit stream-ended
GvretExit ==
    /\ sys = "gvret"
    /\ gPc = "exit"
    /\ gAborted' = TRUE
    /\ IF gTxPc = "spawned"
       THEN /\ gTxPc' = "done"
            /\ gTxq' = <<>>
            /\ gReplies' = gReplies \cup GvretClosed(gTxq)
       ELSE UNCHANGED <<gTxPc, gTxq, gReplies>>
    /\ LET stream_reason == IF gCancel /\ gReason = "disconnected" THEN "stopped" ELSE gReason
       IN /\ gReason' = stream_reason
          /\ events' = Append(events, StreamEndedEvent(stream_reason))
    /\ gWriter' = FALSE
    /\ gPc' = "done"
    /\ UNCHANGED <<sys, gCtlVars, total_frames, gReads, gFaults, gClock, gTxCur, gWritten,
                   gCallPc, gCallFrame, gCallTime, gResults, frames, notGvret>>

\* a sender of the transmit channel is alive: the reader's, or the clone a
\* caller holds until its transmit_frame returns
GvretSenderAlive == gSender \/ \E c \in Callers : gCallPc[c] \notin {"idle", "done"}

\* the receiver of the transmit channel is alive: held by the stream task
\* until it spawns the transmit task, then by the transmit task
GvretReceiverAlive ==
    \/ gTxPc = "none" /\ gPc \notin {"none", "done"}
    \/ gTxPc \notin {"none", "done"}

\* the transmit task's loop condition
GvretTxCheck ==
    /\ sys = "gvret"
    /\ gTxPc \in {"spawned", "loop"}
    /\ IF gCancel
       THEN /\ gTxPc' = "done"
            /\ gTxq' = <<>>
            /\ gReplies' = gReplies \cup GvretClosed(gTxq)
       ELSE /\ gTxPc' = "recv"
            /\ UNCHANGED <<gTxq, gReplies>>
    /\ UNCHANGED <<sys, gCtlVars, gTaskVars, gTxCur, gAborted, gWritten, gCallPc, gCallFrame,
                   gCallTime, gResults, gWriter, gFaults, gClock, frames, events, notGvret>>

\* transmit_rx.recv_timeout(10 ms): a request, or Disconnected when no sender
\* is left, or a timeout.  A timeout with the cancel flag clear ends where it
\* began and is not a step; with the flag set the loop ends.  The task does
\* not await on this path, so an abort is not seen here.
GvretTxRecv ==
    /\ sys = "gvret"
    /\ gTxPc = "recv"
    /\ gTxq # <<>> \/ ~GvretSenderAlive \/ gCancel
    /\ IF gTxq # <<>>
       THEN /\ gTxCur' = Head(gTxq)
            /\ gTxq' = Tail(gTxq)
            /\ gTxPc' = "write"
       ELSE /\ gTxPc' = "done"
            /\ UNCHANGED <<gTxCur, gTxq>>
    /\ UNCHANGED <<sys, gCtlVars, gTaskVars, gAborted, gWritten, gCallVars, gWriter, gFaults,
                   gClock, frames, events, notGvret>>

\* the request is written behind the writer lock and the result sent back.
\* The lock is the task's only await: an aborted task may end there, and
\* its request and the queued ones are dropped.
GvretTxWrite ==
    /\ sys = "gvret"
    /\ gTxPc = "write"
    /\ \/ /\ gAborted
          /\ gTxPc' = "done"
          /\ gTxq' = <<>>
          /\ gReplies' = gReplies \cup GvretClosed(<<gTxCur>> \o gTxq)
          /\ UNCHANGED <<gWritten, gFaults>>
       \/ /\ gTxPc' = "loop"
          /\ UNCHANGED gTxq
          /\ IF gWriter
             THEN \/ /\ gWritten' = Append(gWritten,
                                [id |-> gTxCur, data |-> encode_gvret_frame(gCallFrame[gTxCur])])
                     /\ gReplies' = gReplies \cup {[id |-> gTxCur, res |-> "ok"]}
                     /\ UNCHANGED gFaults
                  \/ /\ gFaults < MaxGvretFaults
                     /\ gFaults' = gFaults + 1
                     /\ gReplies' = gReplies \cup {[id |-> gTxCur, res |-> "error"]}
                     /\ UNCHANGED gWritten
             ELSE /\ gReplies' = gReplies \cup {[id |-> gTxCur, res |-> "error"]}
                  /\ UNCHANGED <<gWritten, gFaults>>
    /\ gTxCur' = 0
    /\ UNCHANGED <<sys, gCtlVars, gTaskVars, gAborted, gCallPc, gCallFrame, gCallTime,
                   gResults, gWriter, gClock, frames, events, notGvret>>

\* Variant of the checks of transmit_frame in which a full channel does not
\* fail the call.
GvretTransmitFailureUnbounded(f) ==
    CASE ~validate_gvret_frame(f) -> "Ok: error result"
      [] ~gSender -> "Err: not connected"
      [] ~GvretReceiverAlive -> "Err: transmit channel closed"
      [] OTHER -> ""

\* the checks of transmit_frame before the request is queued: the result the
\* call returns early with, or "" when try_send puts the request on the channel
GvretTransmitFailure(f) ==
    CASE ~validate_gvret_frame(f) -> "Ok: error result"
      [] ~gSender -> "Err: not connected"
      [] ~GvretReceiverAlive -> "Err: transmit channel closed"
      [] Len(gTxq) >= GVRET_TRANSMIT_CAPACITY -> "Err: transmit channel full"
      [] OTHER -> ""

\* transmit_frame up to the wait for the result: validation, encoding, the
\* sender lookup, try_send
GvretTransmit(c, shape) ==
    /\ sys = "gvret"
    /\ gConfig.kind = "gvret_tcp"
    /\ gCtl = "idle"
    /\ gCallPc[c] = "idle"
    /\ LET f == GvretTxFrame(c, shape)
           failure == GvretTransmitFailure(f)
       IN /\ gCallFrame' = [gCallFrame EXCEPT ![c] = f]
          /\ IF failure # ""
             THEN /\ gResults' = [gResults EXCEPT ![c] = failure]
                  /\ gCallPc' = [gCallPc EXCEPT ![c] = "done"]
                  /\ UNCHANGED gTxq
             ELSE /\ gTxq' = Append(gTxq, c)
                  /\ gCallPc' = [gCallPc EXCEPT ![c] = "wait"]
                  /\ UNCHANGED gResults
    /\ UNCHANGED <<sys, gCtlVars, gTaskVars, gTxPc, gTxCur, gAborted, gWritten, gCallTime,
                   gReplies, gWriter, gFaults, gClock, frames, events, notGvret>>

\* result_rx.recv_timeout(500 ms): the result, or an error because the
\* result sender was dropped or the time is up (the request then stays
\* where it is); on success TransmitResult::success() takes the timestamp
GvretTransmitResult(c) ==
    /\ sys = "gvret"
    /\ gCallPc[c] = "wait"
    /\ \/ \E r \in gReplies :
            /\ r.id = c
            /\ IF r.res = "ok"
               THEN /\ gClock' = gClock + 1
                    /\ gCallTime' = [gCallTime EXCEPT ![c] = gClock + 1]
                    /\ gCallPc' = [gCallPc EXCEPT ![c] = EchoOrder[1]]
                    /\ UNCHANGED gResults
               ELSE /\ gResults' = [gResults EXCEPT ![c] =
                                      IF r.res = "error" THEN "Err: write failed"
                                      ELSE "Err: timeout or channel closed"]
                    /\ gCallPc' = [gCallPc EXCEPT ![c] = "done"]
                    /\ UNCHANGED <<gClock, gCallTime>>
            /\ UNCHANGED gTxq
       \/ /\ \A r \in gReplies : r.id # c
          /\ gResults' = [gResults EXCEPT ![c] = "Err: timeout or channel closed"]
          /\ gCallPc' = [gCallPc EXCEPT ![c] = "done"]
          /\ gTxq' = LeftQueued(gTxq, c)
          /\ UNCHANGED <<gClock, gCallTime>>
    /\ UNCHANGED <<sys, gCtlVars, gTaskVars, gTxPc, gTxCur, gAborted, gWritten, gCallFrame,
                   gReplies, gWriter, gFaults, frames, events, notGvret>>

\* ---- SlcanReader::transmit_frame and GvretUsbReader::transmit_frame.  Their
\* stream threads are not modelled: the shared port is opened and cleared by
\* the environment, under the port lock.
\* the port lock is free: no caller is between its write and its return
PortLockFree == \A c \in Callers : gCallPc[c] \in {"idle", "done"}

\* the stream thread of a run stores the port it opened
PortOpen ==
    /\ sys = "gvret"
    /\ gConfig.kind # "gvret_tcp"
    /\ PortLockFree
    /\ ~gWriter
    /\ gWriter' = TRUE
    /\ UNCHANGED <<sys, gCtlVars, gTaskVars, gTxVars, gCallVars, gFaults, gClock,
                   frames, events, notGvret>>

\* why a stream thread leaves its loop without stop()
OwnReasons == {"complete", "disconnected", "error"}

\* the stream thread leaves its loop on its own and emits stream-ended; the
\* slcan thread first takes the port lock to write the close command; the
\* port stays in the shared handle.  Only the stream thread of a reader
\* that no earlier thread left in this way does so.
PortStreamEnd(reason) ==
    /\ sys = "gvret"
    /\ gConfig.kind # "gvret_tcp"
    /\ gWriter
    /\ gPc = "none"
    /\ gConfig.kind = "slcan" => PortLockFree
    /\ gPc' = "ended"
    /\ gReason' = reason
    /\ events' = Append(events, StreamEndedEvent(reason))
    /\ UNCHANGED <<sys, gCtlVars, total_frames, gReads, gTxVars, gCallVars, gWriter, gFaults,
                   gClock, frames, notGvret>>

\* stop() joins the stream thread and clears the port
PortClose ==
    /\ sys = "gvret"
    /\ gConfig.kind # "gvret_tcp"
    /\ PortLockFree
    /\ gWriter
    /\ gWriter' = FALSE
    /\ gPc' = IF gPc = "ended" THEN "done" ELSE gPc
    /\ UNCHANGED <<sys, gCtlVars, gReason, total_frames, gReads, gTxVars, gCallVars, gFaults,
                   gClock, frames, events, notGvret>>

\* the bytes the reader writes for a frame
PortEncode(kind, f) ==
    IF kind = "slcan"
    THEN encode_slcan_frame([frame_id |-> f.frame_id, dlc |-> Len(f.data) % 256,
                             bytes |-> f.data, is_extended |-> f.is_extended])
    ELSE encode_gvret_frame(f)

\* transmit_frame of a serial-port reader up to the echo: the silent-mode
\* check (slcan) or the validation (GVRET USB), the port lock, the write and
\* flush.  The lock is held until the call returns.
PortTransmit(c, shape) ==
    /\ sys = "gvret"
    /\ gConfig.kind # "gvret_tcp"
    /\ gCallPc[c] = "idle"
    /\ PortLockFree
    /\ LET f == GvretTxFrame(c, shape)
           failure == CASE gConfig.kind = "slcan" /\ gConfig.silent_mode -> "Err: silent mode"
                        [] gConfig.kind = "gvret_usb" /\ ~validate_gvret_frame(f) ->
                              "Ok: error result"
                        [] ~gWriter -> "Err: port not open"
                        [] OTHER -> ""
       IN /\ gCallFrame' = [gCallFrame EXCEPT ![c] = f]
          /\ \/ /\ failure # ""
                /\ gResults' = [gResults EXCEPT ![c] = failure]
                /\ gCallPc' = [gCallPc EXCEPT ![c] = "done"]
                /\ UNCHANGED <<gWritten, gFaults, gClock, gCallTime>>
             \/ /\ failure = ""
                /\ gFaults < MaxGvretFaults
                /\ gFaults' = gFaults + 1
                /\ gResults' = [gResults EXCEPT ![c] = "Err: write failed"]
                /\ gCallPc' = [gCallPc EXCEPT ![c] = "done"]
                /\ UNCHANGED <<gWritten, gClock, gCallTime>>
             \/ /\ failure = ""
                /\ gWritten' = Append(gWritten, [id |-> c, data |-> PortEncode(gConfig.kind, f)])
                /\ gClock' = gClock + 1
                /\ gCallTime' = [gCallTime EXCEPT ![c] = gClock + 1]
                /\ gCallPc' = [gCallPc EXCEPT ![c] = EchoOrder[1]]
                /\ UNCHANGED <<gResults, gFaults>>
    /\ UNCHANGED <<sys, gCtlVars, gTaskVars, gTxPc, gTxq, gTxCur, gAborted, gReplies, gWriter,
                   frames, events, notGvret>>

\* what transmit_frame returns once both echo steps are done
EchoResult(c, next) == IF next = "done" THEN [gResults EXCEPT ![c] = "Ok: success"] ELSE gResults

\* buffer_store::append_frames(vec![tx_frame.clone()])
GvretEchoAppend(c) ==
    /\ sys = "gvret"
    /\ gCallPc[c] = "append"
    /\ frames' = Append(frames, TxEcho(gCallFrame[c], gCallTime[c]))
    /\ gCallPc' = [gCallPc EXCEPT ![c] = NextEchoStep("append")]
    /\ gResults' = EchoResult(c, NextEchoStep("append"))
    /\ UNCHANGED <<sys, gCtlVars, gTaskVars, gTxVars, gCallFrame, gCallTime, gReplies,
                   gWriter, gFaults, gClock, events, notGvret>>

\* emit_frames(app, session_id, vec![tx_frame])
GvretEchoEmit(c) ==
    /\ sys = "gvret"
    /\ gCallPc[c] = "emit"
    /\ events' = Append(events, MergedFrames(<<TxEcho(gCallFrame[c], gCallTime[c])>>))
    /\ gCallPc' = [gCallPc EXCEPT ![c] = NextEchoStep("emit")]
    /\ gResults' = EchoResult(c, NextEchoStep("emit"))
    /\ UNCHANGED <<sys, gCtlVars, gTaskVars, gTxVars, gCallFrame, gCallTime, gReplies,
                   gWriter, gFaults, gClock, frames, notGvret>>

(***************************************************************************)
(* buffer_store as the live readers use it: every reader's stream creates  *)
(* a frames buffer when it starts, appends what it receives with           *)
(* append_frames and ends with emit_stream_ended, which finalizes          *)
(***************************************************************************)
LiveSessions == {1, 2}
\* frames a live session receives before its stream ends
MaxLiveFrames == 2
NO_BUFFER == 0

EmptyStore == [buffers |-> <<>>, active |-> NO_BUFFER]

\* finalize_buffer(): seals the active frames buffer
finalize_buffer(st) ==
    IF st.active = NO_BUFFER THEN st
    ELSE [buffers |-> [st.buffers EXCEPT ![st.active].finalized = TRUE],
          active |-> NO_BUFFER]

\* create_buffer(Frames, name): the new buffer becomes the active frames
\* buffer and the one active before it is finalized; its id is the
\* buffer's position
create_buffer(st) ==
    LET sealed == finalize_buffer(st) IN
    [buffers |-> Append(sealed.buffers, [frames |-> <<>>, finalized |-> FALSE]),
     active |-> Len(sealed.buffers) + 1]

\* append_frames(fs): appends to the active frames buffer, a no-op when
\* there is none
append_frames(st, fs) ==
    IF st.active = NO_BUFFER THEN st
    ELSE [st EXCEPT !.buffers[st.active].frames = @ \o fs]

StoreIdle ==
    /\ store = EmptyStore
    /\ live = [i \in LiveSessions |-> [pc |-> "idle", buffer_id |-> NO_BUFFER,
                                        received |-> <<>>]]

\* the frame a session receives as its n-th
LiveFrame(i, n) == [session |-> i, frame_id |-> n]

\* the start of a session's stream: create_buffer, its id dropped
LiveCreateBuffer(i) ==
    /\ sys = "store"
    /\ live[i].pc = "idle"
    /\ store' = create_buffer(store)
    /\ live' = [live EXCEPT ![i].pc = "stream", ![i].buffer_id = store'.active]
    /\ UNCHANGED <<sys, profVars, bufVars, set_speed_result, codVars, mulVars, slVars,
                   gVars, serVars>>

\* the stream received a frame: append_frames, then the emit
LiveAppend(i) ==
    /\ sys = "store"
    /\ live[i].pc = "stream"
    /\ Len(live[i].received) < MaxLiveFrames
    /\ LET f == LiveFrame(i, Len(live[i].received) + 1) IN
       /\ store' = append_frames(store, <<f>>)
       /\ live' = [live EXCEPT ![i].received = Append(@, f)]
    /\ UNCHANGED <<sys, profVars, bufVars, set_speed_result, codVars, mulVars, slVars,
                   gVars, serVars>>

\* the stream ends: emit_stream_ended calls finalize_buffer()
LiveEnd(i) ==
    /\ sys = "store"
    /\ live[i].pc = "stream"
    /\ store' = finalize_buffer(store)
    /\ live' = [live EXCEPT ![i].pc = "ended"]
    /\ UNCHANGED <<sys, profVars, bufVars, set_speed_result, codVars, mulVars, slVars,
                   gVars, serVars>>

(***************************************************************************)
(* io/serial.rs, framing.rs: framed serial messages                        *)
(***************************************************************************)
\* ---- serial_framer: the delimiter framer, include_delimiter false
DEFAULT_DELIMITER == 10
DEFAULT_MAX_LENGTH == 1024
\* length of a frame that does not fit a u8
LongFrame == 300
\* usize as u8
AsU8(n) == n % 256

NoFramerFrame == [kind |-> "None"]
FramerFrame(bytes, incomplete) ==
    [kind |-> "Some", bytes |-> bytes, incomplete |-> incomplete]

\* SerialFramer::feed, one byte: a frame on the delimiter, a forced split
\* marked incomplete when the buffered length reaches max_length
FramerByte(st, max_length, byte) ==
    IF byte = DEFAULT_DELIMITER
    THEN [buffer |-> <<>>, frames |-> Append(st.frames, FramerFrame(st.buffer, FALSE))]
    ELSE LET b == Append(st.buffer, byte) IN
         IF Len(b) >= max_length
         THEN [buffer |-> <<>>, frames |-> Append(st.frames, FramerFrame(b, TRUE))]
         ELSE [buffer |-> b, frames |-> st.frames]

\* SerialFramer::feed
RECURSIVE SerialFramer_feed(_, _, _)
SerialFramer_feed(st, max_length, bytes) ==
    IF bytes = <<>> THEN st
    ELSE SerialFramer_feed(FramerByte(st, max_length, Head(bytes)), max_length,
                           Tail(bytes))

\* SerialFramer::flush: the trailing bytes as a frame marked incomplete
SerialFramer_flush(buffer) ==
    IF buffer = <<>> THEN NoFramerFrame ELSE FramerFrame(buffer, TRUE)

\* ---- io/serial.rs: the FrameMessage run_serial_stream_blocking makes of a
\* frame of the framer, from feed() and from flush() alike
LiveMessage(fr) ==
    [dlc |-> AsU8(Len(fr.bytes)), bytes |-> fr.bytes, incomplete |-> "None"]

\* ---- framing.rs: the FrameMessage apply_framing_to_buffer makes of an
\* entry of frame_data
ApplyMessage(fr) ==
    [dlc |-> AsU8(Len(fr.bytes)), bytes |-> fr.bytes,
     incomplete |-> IF fr.incomplete THEN "Some(true)" ELSE "None"]

\* min_frame_length of the reader and min_length of apply_framing_to_buffer,
\* when the configuration names none
LIVE_MIN_LENGTH == 0
APPLY_MIN_LENGTH == 1
LongEnough(min_length, fs) == SelectSeq(fs, LAMBDA f : Len(f.bytes) >= min_length)
Messages(Message(_), fs) == [k \in 1..Len(fs) |-> Message(fs[k])]

\* ---- the runs
\* n bytes that are not the delimiter
Data(n) == [k \in 1..n |-> 65]
SerialWires ==
    {Data(2) \o <<DEFAULT_DELIMITER>> \o Data(1),
     Data(4) \o <<DEFAULT_DELIMITER>>,
     Data(LongFrame) \o <<DEFAULT_DELIMITER>>,
     Data(256)}
MaxLengths == {3, 256, DEFAULT_MAX_LENGTH}
Framings == {"run_serial_stream_blocking", "apply_framing_to_buffer"}
NoSerialRun == [by |-> "none", bytes |-> <<>>, max_length |-> DEFAULT_MAX_LENGTH]
\* bytes one read of the port returns at most
MaxSerialRead == 3

SerialIdle ==
    /\ serCfg = NoSerialRun
    /\ serPc = "idle"
    /\ serPos = 0
    /\ serFramer = <<>>
    /\ serData = <<>>
    /\ serOut = <<>>

SerialInit ==
    /\ \E by \in Framings, bytes \in SerialWires, max_length \in MaxLengths :
          /\ serCfg = [by |-> by, bytes |-> bytes, max_length |-> max_length]
          /\ serPc = IF by = "apply_framing_to_buffer" THEN "feed" ELSE "read"
    /\ serPos = 0
    /\ serFramer = <<>>
    /\ serData = <<>>
    /\ serOut = <<>>

notSerial == <<profVars, bufVars, set_speed_result, codVars, mulVars, slVars, gVars,
               stVars>>

\* run_serial_stream_blocking: one read of n bytes, fed to the framer; the
\* frames become pending FrameMessages
SerialRead(n) ==
    /\ sys = "serial"
    /\ serPc = "read"
    /\ n \in 1..(Len(serCfg.bytes) - serPos)
    /\ n <= MaxSerialRead
    /\ LET r == SerialFramer_feed([buffer |-> serFramer, frames |-> <<>>],
                                  serCfg.max_length,
                                  SubSeq(serCfg.bytes, serPos + 1, serPos + n))
       IN /\ serFramer' = r.buffer
          /\ serData' = serData \o r.frames
          /\ serOut' = serOut \o Messages(LiveMessage,
                                          LongEnough(LIVE_MIN_LENGTH, r.frames))
    /\ serPos' = serPos + n
    /\ UNCHANGED <<sys, serCfg, serPc, notSerial>>

\* run_serial_stream_blocking after its loop (stopped, limit reached or the
\* port failed): the framer is flushed and the pending frames are emitted
SerialEnd ==
    /\ sys = "serial"
    /\ serPc = "read"
    /\ LET fs == IF SerialFramer_flush(serFramer) = NoFramerFrame THEN <<>>
                 ELSE <<SerialFramer_flush(serFramer)>>
       IN /\ serData' = serData \o fs
          /\ serOut' = serOut \o Messages(LiveMessage, LongEnough(LIVE_MIN_LENGTH, fs))
    /\ serFramer' = <<>>
    /\ serPc' = "ended"
    /\ UNCHANGED <<sys, serCfg, serPos, notSerial>>

\* apply_framing_to_buffer: one turn of the loop that feeds the bytes of the
\* buffer one at a time and collects frame_data
ApplyFeed ==
    /\ sys = "serial"
    /\ serPc = "feed"
    /\ serPos < Len(serCfg.bytes)
    /\ LET r == SerialFramer_feed([buffer |-> serFramer, frames |-> <<>>],
                                  serCfg.max_length, <<serCfg.bytes[serPos + 1]>>)
       IN /\ serFramer' = r.buffer
          /\ serData' = serData \o r.frames
    /\ serPos' = serPos + 1
    /\ UNCHANGED <<sys, serCfg, serPc, serOut, notSerial>>

\* apply_framing_to_buffer after the loop: the flushed frame joins
\* frame_data, which is filtered by length and converted
ApplyFinish ==
    /\ sys = "serial"
    /\ serPc = "feed"
    /\ serPos = Len(serCfg.bytes)
    /\ LET fs == IF SerialFramer_flush(serFramer) = NoFramerFrame THEN <<>>
                 ELSE <<SerialFramer_flush(serFramer)>>
       IN /\ serData' = serData \o fs
          /\ serOut' = Messages(ApplyMessage, LongEnough(APPLY_MIN_LENGTH, serData \o fs))
    /\ serFramer' = <<>>
    /\ serPc' = "done"
    /\ UNCHANGED <<sys, serCfg, serPos, notSerial>>

(***************************************************************************)
(* Specifications                                                          *)
(***************************************************************************)
BufIdle == BufNew(0) /\ frames = <<>>

InitBuffer ==
    /\ SerialIdle
    /\ GvretIdle
    /\ SlcanIdle
    /\ sys = "buffer"
    /\ ProfInit
    /\ StoreIdle
    /\ CodecIdle
    /\ MultiIdle
    /\ frames \in Buffers
    /\ \E initial_speed \in InitSpeeds : BufNew(initial_speed)

NextBuffer ==
    \/ BufStart
    \/ BufStopBegin
    \/ BufStopJoin
    \/ BufPause
    \/ BufResume
    \/ \E s \in Speeds : BufSetSpeed(s)
    \/ \E t \in SeekTargets(frames) : BufSeekTo(t)
    \/ BufHead
    \/ BufSeek
    \/ BufPauseSleep
    \/ BufBranch
    \/ BufHsEmit
    \/ BufNormWake
    \/ BufFinal
    \/ BufFinish

SpecBuffer == InitBuffer /\ [][NextBuffer]_vars

\* a step of the replay task
BufTaskStep ==
    \/ BufHead
    \/ BufSeek
    \/ BufPauseSleep
    \/ BufBranch
    \/ BufHsEmit
    \/ BufNormWake
    \/ BufFinal
    \/ BufFinish

\* the runtime keeps running a spawned task that is ready, every sleep of
\* the task ends, and stop() goes on once the handle it awaits is ready
FairSpecBuffer == SpecBuffer /\ WF_vars(BufTaskStep) /\ WF_vars(BufStopJoin)

InitStore ==
    /\ SerialIdle
    /\ GvretIdle
    /\ SlcanIdle
    /\ sys = "store"
    /\ ProfInit
    /\ StoreIdle
    /\ CodecIdle
    /\ MultiIdle
    /\ BufIdle

NextStore ==
    \/ \E i \in LiveSessions : LiveCreateBuffer(i)
    \/ \E i \in LiveSessions : LiveAppend(i)
    \/ \E i \in LiveSessions : LiveEnd(i)

SpecStore == InitStore /\ [][NextStore]_vars

InitSerial ==
    /\ sys = "serial"
    /\ ProfInit
    /\ BufIdle
    /\ CodecIdle
    /\ MultiIdle
    /\ SlcanIdle
    /\ GvretIdle
    /\ StoreIdle
    /\ SerialInit

NextSerial ==
    \/ \E n \in 1..MaxSerialRead : SerialRead(n)
    \/ SerialEnd
    \/ ApplyFeed
    \/ ApplyFinish

SpecSerial == InitSerial /\ [][NextSerial]_vars

InitProfile ==
    /\ SerialIdle
    /\ GvretIdle
    /\ SlcanIdle
    /\ sys = "profile"
    /\ ProfInit
    /\ StoreIdle
    /\ BufIdle
    /\ CodecIdle
    /\ MultiIdle

InitCodec ==
    /\ SerialIdle
    /\ GvretIdle
    /\ SlcanIdle
    /\ sys = "codec"
    /\ ProfInit
    /\ StoreIdle
    /\ BufIdle
    /\ CodecInit
    /\ MultiIdle

NextCodec ==
    \/ CodecEncode
    \/ \E n \in 1..Len(codWire) : CodecFeed(n)

SpecCodec == InitCodec /\ [][NextCodec]_vars

InitMulti ==
    /\ SerialIdle
    /\ GvretIdle
    /\ SlcanIdle
    /\ sys = "multi"
    /\ ProfInit
    /\ StoreIdle
    /\ BufIdle
    /\ CodecIdle
    /\ \E srcs \in Configs : MultiNew(srcs)

NextMulti ==
    \/ MultiStart
    \/ MultiStopBegin
    \/ MultiStopJoin
    \/ \E b \in OutputBuses : MultiTransmit(b)
    \/ MultiTransmitResult
    \/ MergeLoad
    \/ MergeCheck
    \/ MergeRecv
    \/ MergeJoin
    \/ \E i \in SourceIdx : SrcConnect(i)
    \/ \E i \in SourceIdx : SlcanSrcConnect(i)
    \/ \E i \in SourceIdx : SlcanSrcRead(i)
    \/ \E i \in SourceIdx : SrcSend(i)
    \/ \E i \in SourceIdx : SrcRead(i)
    \/ \E i \in SourceIdx : TxCheck(i)
    \/ \E i \in SourceIdx : TxRecv(i)
    \/ \E i \in SourceIdx : TxWrite(i)

SpecMulti == InitMulti /\ [][NextMulti]_vars

NextProfile ==
    \/ \E s \in Sessions, p \in Profiles : CanUseProfile(s, p)
    \/ \E s \in Sessions : RegisterUsage(s)
    \/ \E s \in Sessions : UnregisterUsage(s)
    \/ \E s \in Sessions : GiveUp(s)

SpecProfile == InitProfile /\ [][NextProfile]_vars

InitSlcan ==
    /\ SerialIdle
    /\ GvretIdle
    /\ sys = "slcan"
    /\ ProfInit
    /\ StoreIdle
    /\ BufIdle
    /\ CodecIdle
    /\ MultiIdle
    /\ SlcanInit

NextSlcan ==
    \/ SlcanEncode
    \/ SlcanParse
    \/ \E n \in 1..MaxSlcanRead : SlcanRead(n)

SpecSlcan == InitSlcan /\ [][NextSlcan]_vars

InitGvret ==
    /\ SerialIdle
    /\ sys = "gvret"
    /\ ProfInit
    /\ StoreIdle
    /\ BufIdle
    /\ CodecIdle
    /\ MultiIdle
    /\ SlcanIdle
    /\ \E config \in GvretConfigs \cup PortConfigs : GvretNew(config)

NextGvret ==
    \/ GvretStart
    \/ GvretStopBegin
    \/ GvretStopJoin
    \/ GvretConnect
    \/ GvretRead
    \/ GvretExit
    \/ GvretTxCheck
    \/ GvretTxRecv
    \/ GvretTxWrite
    \/ \E c \in Callers, shape \in TxShapes : GvretTransmit(c, shape)
    \/ \E c \in Callers : GvretTransmitResult(c)
    \/ \E c \in Callers : GvretEchoAppend(c)
    \/ \E c \in Callers : GvretEchoEmit(c)
    \/ PortOpen
    \/ PortClose
    \/ \E reason \in OwnReasons : PortStreamEnd(reason)
    \/ \E c \in Callers, shape \in TxShapes : PortTransmit(c, shape)

SpecGvret == InitGvret /\ [][NextGvret]_vars

\* the transmit paths of both readers that queue their requests
SpecTransmit == (InitMulti \/ InitGvret) /\ [][NextMulti \/ NextGvret]_vars

(***************************************************************************)
(* Properties of the buffer reader                                         *)
(***************************************************************************)
RECURSIVE Flatten(_)
Flatten(evs) ==
    IF evs = <<>> THEN <<>>
    ELSE (IF Head(evs).ev = "frame-message" THEN Head(evs).frames ELSE <<>>)
         \o Flatten(Tail(evs))

\* the frame-message batches emitted since the latest start()
FrameBatches == SelectSeq(events, LAMBDA e : e.ev = "frame-message")
\* the frames of those batches, in emission order
Emitted == Flatten(events)
\* the frame the task has taken but neither batched nor emitted yet
Held == IF pc \in {"branch", "norm_sleep"} THEN <<frame>> ELSE <<>>

\* every frame taken from the buffer is emitted, batched or held, in buffer
\* order and once; a replay that completes has emitted the whole buffer
NoFrameLostOrRepeated ==
    (pc # "none" /\ ~seekDone) =>
        /\ Emitted \o batch_buffer \o Held = SubSeq(frames, 1, frame_index)
        /\ (pc = "done" /\ completed_flag) => Emitted = frames

\* C2 (as stated): once the task has seen the pause it emits no further
\* frame-message batch while the pause lasts and no seek is pending.
C2_NoBatchWhilePaused ==
    [][(pauseSeen /\ pause_flag /\ pause_flag' /\ pc # "seek" /\ seek_target_us = NO_SEEK)
        => FrameBatches' = FrameBatches]_vars

\* C2 (amended): once the task has seen the pause it emits no further
\* frame-message batch while the pause lasts, unless a seek is pending or
\* stop() has set the cancel flag (the final flush then emits the frames
\* already batched); and across pause and resume the frames emitted are the
\* buffer's frames in order, each exactly once, whichever branch of the loop
\* the pause interrupted.
C2_PauseSuspendsAndResumes ==
    [][/\ (pauseSeen /\ pause_flag /\ pause_flag' /\ pc # "seek"
            /\ seek_target_us = NO_SEEK /\ ~cancel_flag)
           => FrameBatches' = FrameBatches
       /\ NoFrameLostOrRepeated']_vars

\* a replay of a full-length buffer that was paused, resumed and ran to completion
C2_Witness ==
    /\ sys = "buffer"
    /\ wasPaused
    /\ pc = "done"
    /\ completed_flag
    /\ ~seekDone
    /\ Len(frames) = MaxFrames
    /\ Emitted = frames

\* the ids of the frames at or before time t and inside the lookback window
IdsUpTo(t) ==
    {frames[i].frame_id : i \in {j \in 1..Len(frames) :
        frames[j].timestamp_us <= t /\ t - frames[j].timestamp_us <= MAX_LOOKBACK_US}}

\* C3: a seek to T processed while paused emits exactly one frame batch,
\* sorted by frame_id with at most one frame per id, whose ids are the ids of
\* the buffer frames with timestamp <= T inside the 120 s lookback window; no
\* frame later than T contributes and the seek emits no other batch.
C3_SeekSnapshot ==
    (lastSeek.target # NO_SEEK /\ lastSeek.paused /\ IdsUpTo(lastSeek.target) # {}) =>
        /\ Len(lastSeek.batches) = 1
        /\ LET b == lastSeek.batches[1].frames IN
            /\ \A i \in 1..(Len(b) - 1) : b[i].frame_id < b[i + 1].frame_id
            /\ {b[i].frame_id : i \in 1..Len(b)} = IdsUpTo(lastSeek.target)
            /\ \A i \in 1..Len(b) : b[i].timestamp_us <= lastSeek.target

StreamEnded == SelectSeq(events, LAMBDA e : e.ev = "stream-ended")

\* C4: a stream that was started and has terminated has emitted exactly one
\* stream-ended event.
C4_OneStreamEnded ==
    (sys = "buffer" /\ pc = "done") => Len(StreamEnded) = 1

\* sessions that passed can_use_profile for p and have not yet released it
Passed(p) == {s \in Sessions : sessPc[s] \in {"checked", "registered"} /\ sessProfile[s] = p}

\* C1: for a profile of kind slcan or serial at most one of the concurrent
\* sessions passes can_use_profile, under every interleaving of the two
\* "can_use_profile then register_usage" sequences.
C1_AtMostOnePasses ==
    \A p \in Profiles :
        ProfileKind(p) \in SINGLE_HANDLE_KINDS => Cardinality(Passed(p)) <= 1

(***************************************************************************)
(* Properties of the GVRET codec                                           *)
(***************************************************************************)
\* the five compared fields of a CanTransmitFrame
TxFields(f) ==
    [frame_id |-> f.frame_id, bus |-> f.bus, dlc |-> Len(f.data), bytes |-> f.data,
     is_extended |-> f.is_extended]

\* the five compared fields of a parsed frame
RxFields(m) ==
    [frame_id |-> m.frame_id, bus |-> m.bus, dlc |-> m.dlc, bytes |-> m.bytes,
     is_extended |-> m.is_extended]

\* a transmit record read back field by field in the transmit layout
\* F1 00 | id, 4 bytes LE, bit 31 = extended | bus | length | data
ReadTransmitRecord(b) ==
    [frame_id |-> b[3] + 256 * b[4] + 65536 * b[5] + 16777216 * (b[6] % 128),
     bus |-> b[7], dlc |-> b[8], bytes |-> SubSeq(b, 9, Len(b)),
     is_extended |-> b[6] >= 128]

IdInRange(f) == IF f.is_extended THEN f.frame_id < 536870912 ELSE f.frame_id < 2048

\* C9 (as stated): for every valid CanTransmitFrame f the parser run over
\* encode(f) returns exactly one frame and that frame has f's frame_id, bus,
\* dlc, bytes and is_extended.
C9_ParseRecoversEncoded ==
    (sys = "codec" /\ codIn.kind = "roundtrip" /\ codPc = "done") =>
        /\ Len(codOut) = 1
        /\ RxFields(codOut[1]) = TxFields(codIn.tx)

\* C9 (amended): for every valid CanTransmitFrame f whose id fits its format,
\* encode(f) is the transmit record of f: read back in the transmit layout it
\* gives f's frame_id, bus, dlc, bytes and is_extended.  The parser, which
\* reads the receive layout, returns no frame with f's fields from encode(f),
\* however the bytes are split over reads.
C9_EncodeIsTransmitRecord ==
    (sys = "codec" /\ codIn.kind = "roundtrip" /\ codPc \in {"feed", "done"}) =>
        /\ IdInRange(codIn.tx) => ReadTransmitRecord(codEnc) = TxFields(codIn.tx)
        /\ \A i \in 1..Len(codOut) : RxFields(codOut[i]) # TxFields(codIn.tx)

\* an extended frame with payload was encoded and fed to the parser, which
\* returned a frame that is not the encoded one
C9_Witness ==
    /\ sys = "codec"
    /\ codIn.kind = "roundtrip"
    /\ codPc = "done"
    /\ codIn.tx.is_extended
    /\ IdInRange(codIn.tx)
    /\ codIn.tx.data = BytesABZ
    /\ Len(codOut) = 1
    /\ ReadTransmitRecord(codEnc) = TxFields(codIn.tx)

IsSubSeq(s, t) ==
    \E pick \in SUBSET (1..Len(t)) :
        /\ Cardinality(pick) = Len(s)
        /\ \A i \in 1..Len(s) :
            \E j \in pick : Cardinality({k \in pick : k <= j}) = i /\ t[j] = s[i]

WithoutTimestamp(out) == [i \in 1..Len(out) |-> RxFields(out[i])]
SentFields == [i \in 1..Len(codIn.sent) |-> RxFields(codIn.sent[i])]

\* C10 (as stated): whatever bytes are injected before and between two valid
\* frame records, the parser returns both frames, in order.
C10_NoiseDropsNoFrame ==
    (sys = "codec" /\ codIn.kind = "resync" /\ codPc = "done") =>
        IsSubSeq(SentFields, WithoutTimestamp(codOut))

\* noise in which no sync byte is followed by the frame opcode or by the
\* opcode of a control reply
Skipped == {GVRET_CMD_FRAME, 1, 6, 7, 9, 12}
Harmless(n) ==
    \A i \in 1..Len(n) : (n[i] = GVRET_SYNC /\ i < Len(n)) => n[i + 1] \notin Skipped

\* C10 (amended): when the bytes injected before and between two valid frame
\* records contain no sync byte 0xF1 that is followed by 0x00 or by a control
\* opcode, the parser returns exactly the two frames, in order, however the
\* bytes are split over reads.
C10_HarmlessNoiseDropsNoFrame ==
    (sys = "codec" /\ codIn.kind = "resync" /\ codPc = "done"
        /\ Harmless(codIn.noise[1]) /\ Harmless(codIn.noise[2])) =>
            WithoutTimestamp(codOut) = SentFields

\* both frames came out of a stream with noise holding a sync byte before
\* the first record and noise between the records
C10_Witness ==
    /\ sys = "codec"
    /\ codIn.kind = "resync"
    /\ codPc = "done"
    /\ codIn.noise[1] = <<GVRET_SYNC, 85>>
    /\ codIn.noise[2] = <<0, GVRET_SYNC, 85>>
    /\ WithoutTimestamp(codOut) = SentFields
    /\ Len(codOut) = 2

(***************************************************************************)
(* Properties of the multi-source merger                                   *)
(***************************************************************************)
\* C5: once stop() has returned, every task the reader started (the merge
\* task, the source tasks and their transmit tasks) has terminated.
C5_TasksTerminatedAfterStop ==
    (sys = "multi" /\ stopReturned) =>
        /\ mergePc \in {"none", "done"}
        /\ \A i \in SourceIdx : srcPc[i] \in {"none", "done"} /\ txPc[i] \in {"none", "done"}

\* C6: with the stop flag clear, once every source task has finished or was
\* never spawned and every message has been received, the active-source
\* counter is zero, so that the merge loop ends.
C6_CounterReachesZero ==
    (sys = "multi" /\ mergePc \in {"loop", "recv"} /\ ~stop_flag /\ chan = <<>>
        /\ \A i \in SourceIdx : srcPc[i] \in {"none", "done"}) =>
            active_sources = 0

\* the transmit requests in the system, with the source whose channel or
\* device they are on
QueuedRequests ==
    UNION {{[src |-> i, req |-> txq[i][k]] : k \in 1..Len(txq[i])} : i \in SourceIdx}
        \cup {[src |-> i, req |-> txCur[i]] : i \in {j \in SourceIdx : txCur[j] # NoRequest}}
        \cup {[src |-> written[k].src, req |-> written[k].req] : k \in 1..Len(written)}

\* the enabled mappings onto output bus b, as <<source index, mapping index>>
EnabledOnto(b) ==
    {ik \in UNION {{<<i, k>> : k \in 1..Len(sources[i].bus_mappings)} : i \in 1..Len(sources)} :
        /\ sources[ik[1]].bus_mappings[ik[2]].enabled
        /\ sources[ik[1]].bus_mappings[ik[2]].output_bus = b}

\* the last of them in source order, then mapping order
LastOnto(b) ==
    CHOOSE ik \in EnabledOnto(b) :
        \A jl \in EnabledOnto(b) : jl[1] < ik[1] \/ (jl[1] = ik[1] /\ jl[2] <= ik[2])

\* C7 (as stated): a request made for output bus b is on the channel of
\* source i and carries device bus d for every enabled mapping (d -> b) of a
\* source i.
C7_RoutedByAnyEnabledMapping ==
    sys = "multi" =>
        \A rq \in QueuedRequests : \A ik \in EnabledOnto(rq.req.bus) :
            /\ rq.src = ik[1]
            /\ rq.req.data[7] = sources[ik[1]].bus_mappings[ik[2]].device_bus

\* C7 (amended): the route of output bus b is the last enabled mapping onto b
\* in source order, then mapping order; a bus no enabled mapping maps onto has
\* no route.  A request made for output bus b is queued on the channel of that
\* mapping's source only, and its bytes are the encoding of the frame with
\* bus rewritten to that mapping's device bus.
C7_RoutedByLastEnabledMapping ==
    sys = "multi" =>
        /\ \A b \in 0..7 :
            transmit_routes[b] =
                IF EnabledOnto(b) = {} THEN NoRoute
                ELSE [source_idx |-> LastOnto(b)[1],
                      profile_kind |-> sources[LastOnto(b)[1]].profile_kind,
                      device_bus |->
                          sources[LastOnto(b)[1]].bus_mappings[LastOnto(b)[2]].device_bus]
        /\ \A rq \in QueuedRequests :
            /\ EnabledOnto(rq.req.bus) # {}
            /\ rq.src = LastOnto(rq.req.bus)[1]
            /\ LET d == sources[rq.src].bus_mappings[LastOnto(rq.req.bus)[2]].device_bus IN
                /\ sources[rq.src].profile_kind = "gvret_tcp" => rq.req.data[7] = d
                /\ rq.req.data = EncodeTransmit(sources[rq.src].profile_kind,
                                                [TransmitInput(rq.req.bus) EXCEPT !.bus = d])
        /\ \A rq1, rq2 \in QueuedRequests : rq1.req.id = rq2.req.id => rq1.src = rq2.src

\* two sources map onto output bus 0; a transmit to bus 0 was written to the
\* second source's device with device bus 1
C7_Witness ==
    /\ sys = "multi"
    /\ Cardinality({ik[1] : ik \in EnabledOnto(0)}) = 2
    /\ \E k \in 1..Len(written) :
        /\ written[k].src = 2
        /\ written[k].req.bus = 0
        /\ written[k].req.data[7] = 1

NoBus == 0 - 1

\* the output bus of the first enabled mapping of device bus d, or NoBus
ExpectedBus(maps, d) ==
    LET en == {k \in 1..Len(maps) : maps[k].enabled /\ maps[k].device_bus = d} IN
    IF en = {} THEN NoBus
    ELSE maps[CHOOSE k \in en : \A j \in en : k <= j].output_bus

\* what a source with these mappings forwards of the frames it read
ExpectedForward(fs, maps) ==
    LET kept == SelectSeq(fs, LAMBDA f : ExpectedBus(maps, f.bus) # NoBus) IN
    [k \in 1..Len(kept) |-> [kept[k] EXCEPT !.bus = ExpectedBus(maps, kept[k].bus)]]

RECURSIVE MessageFrames(_)
MessageFrames(msgs) ==
    IF msgs = <<>> THEN <<>> ELSE Head(msgs).frames \o MessageFrames(Tail(msgs))

\* every frame between the sources and the sink: in a message being sent, in
\* the merge channel, pending in the merge task, in the buffer, in an event
FramesInFlight ==
    MessageFrames([i \in SourceIdx |-> outbox[i]]) \o MessageFrames(chan)
        \o pending_frames \o frames \o MessageFrames(events)

\* C8: of the frames a source reads, those on a device bus with an enabled
\* mapping are forwarded to the merger, in order, with bus set to the output
\* bus of the first enabled mapping of that device bus, and nothing else is
\* forwarded; no frame in a message, in the merge channel, in the buffer or in
\* an event is on a bus other than the one its source maps its device bus to.
C8_BusMappingOnReceive ==
    sys = "multi" =>
        /\ lastRead # NoRead =>
            lastRead.sent = ExpectedForward(lastRead.got, sources[lastRead.src].bus_mappings)
        /\ \A i \in SourceIdx :
            (srcPc[i] = "send" /\ outbox[i].kind = "Frames") =>
                (lastRead.src = i => outbox[i].frames = lastRead.sent)
        /\ \A k \in 1..Len(FramesInFlight) :
            LET f == FramesInFlight[k] IN
            f.bus = ExpectedBus(sources[f.src].bus_mappings, f.dev_bus)

\* a source with mappings 0 -> 5 (enabled) and 1 -> 6 (disabled) read a frame
\* on each bus; the buffer and the sink got the first, on bus 5, and nothing
\* of the second
C8_Witness ==
    /\ sys = "multi"
    /\ Len(lastRead.got) = 2
    /\ lastRead.got[2].bus = 1
    /\ Len(lastRead.sent) = 1
    /\ ExpectedBus(sources[1].bus_mappings, 1) = NoBus
    /\ Len(frames) = 1
    /\ frames[1].bus = 5
    /\ frames[1].dev_bus = 0
    /\ MessageFrames(events) = frames

(***************************************************************************)
(* Properties of the slcan codec                                           *)
(***************************************************************************)
\* C11: for every valid classic frame (standard or extended, data or remote,
\* dlc <= 8), parsing the encoded line without its CR yields a frame with the
\* same frame_id, dlc, bytes and is_extended
C11_SlcanRoundTrip ==
    (slPc = "done" /\ slIn # NoFrame) =>
        /\ slOut # NoFrame
        /\ slOut.frame_id = slIn.frame_id
        /\ slOut.dlc = slIn.dlc
        /\ slOut.bytes = slIn.bytes
        /\ slOut.is_extended = slIn.is_extended

\* the invariants of a frame: bytes.len() == dlc, the dlc limits of classic
\* and FD frames, eleven-bit ids unless extended
FrameInvariants(f) ==
    /\ Len(f.bytes) = f.dlc
    /\ ~f.is_fd => f.dlc <= 8
    /\ f.is_fd => f.dlc <= 64
    /\ ~f.is_extended => f.frame_id <= 2047

\* C12: every frame parse_slcan_frame returns, remote lines included,
\* satisfies the frame invariants
C12_SlcanFrameInvariants ==
    (slPc = "done" /\ slOut # NoFrame) => FrameInvariants(slOut)

(***************************************************************************)
(* Properties of the TX echo                                               *)
(***************************************************************************)
IsTxEcho(f) == "direction" \in DOMAIN f /\ f.direction = "tx"

\* the TX echo frames of a sequence of frames, in order
RECURSIVE TxEchoes(_)
TxEchoes(fs) ==
    IF fs = <<>> THEN <<>>
    ELSE (IF IsTxEcho(Head(fs)) THEN <<Head(fs)>> ELSE <<>>) \o TxEchoes(Tail(fs))

InBuffer(f) == \E j \in 1..Len(frames) : frames[j] = f

MultiSuccesses == SelectSeq(results, LAMBDA r : r = "Ok: success")

\* C14: the transmit_frame calls that returned success are as many as the TX
\* echo frames in the frames buffer and as the TX echo frames emitted to the
\* session, for the multi-source merger as for the standalone readers
C14_EchoIffSuccess ==
    /\ Len(TxEchoes(frames)) = Len(MultiSuccesses)
    /\ Len(TxEchoes(Flatten(events))) = Len(MultiSuccesses)

\* the caller whose frame an echo repeats, and the place of that caller's
\* request among the requests written to the socket
EchoCaller(f) == f.frame_id - 256
WritePos(c) == CHOOSE k \in 1..Len(gWritten) : gWritten[k].id = c

\* C15: on a GVRET TCP reader the TX echoes stand in the frames buffer in the
\* order in which the transmit task wrote their frames to the socket
C15_EchoOrderIsWriteOrder ==
    gConfig.kind = "gvret_tcp" =>
        LET echoes == TxEchoes(frames)
        IN \A i, j \in 1..Len(echoes) :
              i < j => WritePos(EchoCaller(echoes[i])) < WritePos(EchoCaller(echoes[j]))

(***************************************************************************)
(* Properties of the profile registry                                      *)
(***************************************************************************)
ProfileKinds == {"slcan", "serial", "gvret_tcp", "postgres"}

\* C16: whatever register_usage and unregister_usage have left in the
\* registry, can_use_profile fails for the kinds slcan and serial exactly
\* when the id has an entry and succeeds for every other kind; a session's
\* call is answered accordingly and leaves the registry as it was
C16_RegistryContract ==
    /\ [](\A p \in Profiles, kind \in ProfileKinds :
            can_use_profile(PROFILE_USAGE, p, kind)
                <=> ~(kind \in {"slcan", "serial"} /\ PROFILE_USAGE[p] # NoUsage))
    /\ [][\A s \in Sessions :
            (sessPc[s] = "idle" /\ sessPc'[s] \in {"checked", "rejected"}) =>
                /\ PROFILE_USAGE' = PROFILE_USAGE
                /\ sessPc'[s] = "rejected"
                      <=> /\ ProfileKind(sessProfile'[s]) \in {"slcan", "serial"}
                          /\ PROFILE_USAGE[sessProfile'[s]] # NoUsage]_vars

\* a session was refused a single-handle profile that another session holds
C16_Witness ==
    \E s \in Sessions :
        /\ sessPc[s] = "rejected"
        /\ ProfileKind(sessProfile[s]) \in SINGLE_HANDLE_KINDS
        /\ PROFILE_USAGE[sessProfile[s]] \notin {NoUsage, s}

(***************************************************************************)
(* Properties of start()                                                   *)
(***************************************************************************)
\* the stream task spawned by the last accepted start() has not returned yet
StreamRunning == gPc \notin {"none", "done"}

\* C17: a call of start() on the GVRET TCP reader is rejected exactly while
\* its stream task is running; from Stopped and after the stream has ended on
\* its own the call succeeds, the reader becomes Running and a stream task is
\* spawned; a rejected call leaves the state and the tasks as they were
C17_StartAcceptance ==
    [][nStart' # nStart =>
          /\ gStartRes' = "rejected" <=> StreamRunning
          /\ gStartRes' = "rejected" => UNCHANGED <<gState, gTaskVars, gTxVars>>
          /\ gStartRes' = "ok" => gState' = "Running" /\ gPc' = "connect"]_vars

(***************************************************************************)
(* Properties of the merge task's termination                              *)
(***************************************************************************)
\* the Frames messages the sources have sent and the merge task has not
\* received
UnreceivedFrames == SelectSeq(chan, LAMBDA msg : msg.kind = "Frames")

\* C18: once the merge task has emitted stream-ended, no Frames message that
\* a source sent is left in the merge channel: every frame sent was appended
\* to the frames buffer and emitted before
C18_MergerDrain ==
    (sys = "multi" /\ mergePc = "done") => UnreceivedFrames = <<>>

(***************************************************************************)
(* Properties of a failure in the connection phase                         *)
(***************************************************************************)
\* source i returned from its connection phase: it never announced a
\* transmit channel and never spawned its transmit task
ConnectFailed(i) == srcPc[i] = "done" /\ txPc[i] = "none"

\* an event e1 is followed, later in the sink, by an event e2
EmittedInOrder(e1, e2) ==
    \E j, k \in 1..Len(events) : j < k /\ events[j] = e1 /\ events[k] = e2

\* C19: when every source of a multi-source session that nobody stops has
\* failed to connect and the merge task has finished, the sink has received
\* can-bytes-error and then stream-ended with reason error, and the reader
\* is Stopped
C19_ConnectFailureSurfaces ==
    ( /\ sys = "multi"
      /\ mergePc = "done"
      /\ ~stop_flag
      /\ \E i \in SourceIdx : ConnectFailed(i)
      /\ \A i \in SourceIdx : srcPc[i] # "none" => ConnectFailed(i) )
    => /\ EmittedInOrder(ErrorEvent, StreamEndedEvent("error"))
       /\ mState = "Stopped"

(***************************************************************************)
(* Properties of a transmit that has no target                             *)
(***************************************************************************)
\* output bus b has no route, or the source it is routed to has no transmit
\* channel in the shared map
NoTarget(b) ==
    \/ transmit_routes[b] = NoRoute
    \/ transmit_routes[b].source_idx \notin transmit_channels

\* C20: a transmit_frame call on the merger for a bus that has no route, or
\* whose routed source has no transmit channel registered, returns an error
\* at once: no request is queued on the transmit channel of any source, and
\* the routes, the channel map and the frames buffer are as before
C20_TransmitWithNoTarget ==
    [][\A b \in OutputBuses :
          (MultiTransmit(b) /\ NoTarget(b)) =>
              /\ results' = Append(results,
                                   IF transmit_routes[b] = NoRoute
                                   THEN "Err: no source configured for bus"
                                   ELSE "Err: no transmit channel")
              /\ callPc' = "idle"
              /\ UNCHANGED <<txq, callReq, replies, written, transmit_routes,
                             transmit_channels, frames, events>>]_vars

\* a transmit to a routed bus whose source had failed to connect, and has no
\* channel in the map, has returned the error; no request was queued or
\* written
C20_Witness ==
    /\ sys = "multi"
    /\ results = <<"Err: no transmit channel">>
    /\ \E i \in SourceIdx : ConnectFailed(i)
    /\ \A i \in SourceIdx : txq[i] = <<>>
    /\ written = <<>>

(***************************************************************************)
(* Properties of the transmit call's waiting                               *)
(***************************************************************************)
\* caller c enters transmit_frame in this step
CallBegins(c) == gCallPc[c] = "idle" /\ gCallPc'[c] # "idle"

\* caller c leaves the wait for its result in this step
WaitEnds(c) == gCallPc[c] = "wait" /\ gCallPc'[c] # "wait"

BatchTimestamps == 1..3

\* the n-th frame to arrive at the merge task
BatchFrame(n, ts) ==
    [frame_id |-> n, bus |-> 0, timestamp_us |-> ts, src |-> IF n = 1 THEN 1 ELSE 2,
     dev_bus |-> 0]

\* what the sources have sent: one frame of source 1, two of source 2, and
\* for some runs the Ended message of the only source counted
BatchChannels ==
    {<<FramesMsg(1, <<BatchFrame(1, t1)>>),
       FramesMsg(2, <<BatchFrame(2, t2), BatchFrame(3, t3)>>)>> \o tail :
        t1 \in BatchTimestamps, t2 \in BatchTimestamps, t3 \in BatchTimestamps,
        tail \in {<<>>, <<EndedMsg(1, "disconnected")>>}}

\* the merge task at the top of its loop with one active source
BatchInit(msgs) ==
    /\ sources = <<>>
    /\ transmit_routes = new_transmit_routes(<<>>)
    /\ mState = "Running"
    /\ stop_flag = FALSE
    /\ transmit_channels = {}
    /\ mCtl = "idle"
    /\ started = TRUE
    /\ stopReturned = FALSE
    /\ chan = msgs
    /\ mergePc = "loop"
    /\ active_sources = 1
    /\ pending_frames = <<>>
    /\ srcPc = [i \in SourceIdx |-> "none"]
    /\ outbox = [i \in SourceIdx |-> NoMsg]
    /\ nReads = 0
    /\ nFaults = 0
    /\ clock = 0
    /\ lastRead = NoRead
    /\ txPc = [i \in SourceIdx |-> "none"]
    /\ txq = [i \in SourceIdx |-> <<>>]
    /\ txCur = [i \in SourceIdx |-> NoRequest]
    /\ aborted = [i \in SourceIdx |-> FALSE]
    /\ written = <<>>
    /\ nTx = 0
    /\ callPc = "idle"
    /\ callReq = NoRequest
    /\ replies = {}
    /\ results = <<>>

batchRest == <<sources, transmit_routes, mState, mCtl, started, stopReturned,
               mulSrc, mulTx, mulCall, notMulti>>

\* stop() sets the stop flag
BatchStop ==
    /\ sys = "batch"
    /\ ~stop_flag
    /\ mergePc # "done"
    /\ stop_flag' = TRUE
    /\ UNCHANGED <<sys, transmit_channels, mulMerge, frames, events, batchRest>>

\* the loop condition; after the loop the remaining pending frames are sorted
BatchCheck ==
    /\ sys = "batch"
    /\ mergePc = "loop"
    /\ IF ~stop_flag /\ active_sources > 0
       THEN /\ mergePc' = "recv"
            /\ UNCHANGED pending_frames
       ELSE IF pending_frames # <<>>
       THEN /\ pending_frames' = SortByTimestamp(pending_frames)
            /\ mergePc' = "last_append"
       ELSE /\ mergePc' = "done"
            /\ UNCHANGED pending_frames
    /\ UNCHANGED <<sys, stop_flag, transmit_channels, chan, active_sources, frames, events,
                   batchRest>>

\* the body of the loop up to the sort: a message or the 50 ms timeout, then
\* the test of the batch size and of the time since the last emit
BatchRecv ==
    /\ sys = "batch"
    /\ mergePc = "recv"
    /\ chan # <<>> \/ pending_frames # <<>> \/ stop_flag
    /\ \E elapsed \in BOOLEAN :
        LET timeout == chan = <<>>
            r == IF timeout
                 THEN [active |-> active_sources, channels |-> transmit_channels,
                       pending |-> pending_frames, errors |-> <<>>]
                 ELSE AfterMessage(Head(chan))
            emit == r.pending # <<>>
                    /\ (Len(r.pending) >= MERGE_BATCH_SIZE \/ elapsed \/ timeout)
        IN  /\ timeout => elapsed
            /\ chan' = IF timeout THEN chan ELSE Tail(chan)
            /\ active_sources' = r.active
            /\ transmit_channels' = r.channels
            /\ events' = events \o r.errors
            /\ IF emit
               THEN /\ pending_frames' = SortByTimestamp(r.pending)
                    /\ mergePc' = "append"
               ELSE /\ pending_frames' = r.pending
                    /\ mergePc' = "loop"
    /\ UNCHANGED <<sys, stop_flag, frames, batchRest>>

\* buffer_store::append_frames(pending_frames.clone())
BatchAppend ==
    /\ sys = "batch"
    /\ mergePc \in {"append", "last_append"}
    /\ frames' = frames \o pending_frames
    /\ mergePc' = IF mergePc = "append" THEN "emit" ELSE "last_emit"
    /\ UNCHANGED <<sys, stop_flag, transmit_channels, chan, active_sources, pending_frames,
                   events, batchRest>>

\* emit_frames(&app, &session_id, pending_frames); in the loop the pending
\* vector is then replaced by an empty one
BatchEmit ==
    /\ sys = "batch"
    /\ mergePc \in {"emit", "last_emit"}
    /\ events' = Append(events, MergedFrames(pending_frames))
    /\ pending_frames' = <<>>
    /\ mergePc' = IF mergePc = "emit" THEN "loop" ELSE "done"
    /\ UNCHANGED <<sys, stop_flag, transmit_channels, chan, active_sources, frames,
                   batchRest>>

InitBatch ==
    /\ SerialIdle
    /\ GvretIdle
    /\ SlcanIdle
    /\ sys = "batch"
    /\ ProfInit
    /\ StoreIdle
    /\ BufIdle
    /\ CodecIdle
    /\ \E msgs \in BatchChannels : BatchInit(msgs)

NextBatch ==
    \/ BatchStop
    \/ BatchCheck
    \/ BatchRecv
    \/ BatchAppend
    \/ BatchEmit

SpecBatch == InitBatch /\ [][NextBatch]_vars

(***************************************************************************)
(* Properties of the merger's batches                                      *)
(***************************************************************************)
\* non-decreasing timestamps, and arrival order (the frame ids of the runs)
\* among frames of equal timestamp
SortedStable(fs) ==
    \A i, j \in 1..Len(fs) :
        i < j => \/ fs[i].timestamp_us < fs[j].timestamp_us
                 \/ /\ fs[i].timestamp_us = fs[j].timestamp_us
                    /\ fs[i].frame_id < fs[j].frame_id

\* C22: every batch the merge task emits is sorted by timestamp_us, frames
\* of equal timestamp in arrival order; the frames emitted so far are the
\* first frames of the buffer, in the same order, and between two passes of
\* the emit block the buffer holds the emitted frames and nothing else
C22_MergerBatches ==
    sys = "batch" =>
        /\ \A k \in 1..Len(FrameBatches) : SortedStable(FrameBatches[k].frames)
        /\ Len(Flatten(events)) <= Len(frames)
        /\ Flatten(events) = SubSeq(frames, 1, Len(Flatten(events)))
        /\ mergePc \notin {"emit", "last_emit"} => frames = Flatten(events)

\* the three frames arrived with timestamps 2, 2, 1 and left in one batch
\* as frames 3, 1, 2
C22_Witness ==
    /\ sys = "batch"
    /\ Len(events) = 1
    /\ Len(events[1].frames) = 3
    /\ events[1].frames[1].frame_id = 3
    /\ events[1].frames[2].frame_id = 1
    /\ events[1].frames[2].timestamp_us = events[1].frames[3].timestamp_us
    /\ frames = events[1].frames

(***************************************************************************)
(* Properties of a restart of the merger                                   *)
(***************************************************************************)
\* the test MultiSourceReader::start makes before anything else
StartAccepts == mState \notin {"Running", "Starting"}

\* the run that start() began is over: its merge task has returned and no
\* stop() is in progress
RunEnded == started /\ mergePc = "done" /\ mCtl = "idle"

\* C23: once a run of the merger is over, by stop() or because its merge
\* task returned on its own, start() is accepted; after stop() the message
\* channel is a new, empty one and no source task of the run is left to
\* send on it
C23_RestartAfterRun ==
    (sys = "multi" /\ RunEnded) =>
        /\ StartAccepts
        /\ stopReturned =>
              /\ chan = <<>>
              /\ \A i \in SourceIdx : srcPc[i] \in {"none", "done"}

(***************************************************************************)
(* Properties of slcan silent mode                                         *)
(***************************************************************************)
\* the slcan sources of the session whose profile sets silent_mode
SilentSources ==
    {i \in 1..Len(sources) : sources[i].profile_kind = "slcan" /\ sources[i].silent_mode}

\* every output bus that has a route is routed to a silent source
OnlySilentRoutes ==
    \A b \in OutputBuses :
        transmit_routes[b] = NoRoute \/ transmit_routes[b].source_idx \in SilentSources

SilentReaderNeverWrites ==
    (sys = "gvret" /\ gConfig.kind = "slcan" /\ gConfig.silent_mode) =>
        /\ gWritten = <<>>
        /\ \A c \in Callers : gResults[c] \in {"", "Err: silent mode"}
        /\ \A c \in Callers : gCallPc[c] \in {"idle", "done"}

(***************************************************************************)
(* Properties of the GVRET transmit validation                             *)
(***************************************************************************)
\* the frame is one the GVRET protocol can carry
GvretCarries(is_fd, len, bus) == len <= (IF is_fd THEN 64 ELSE 8) /\ bus <= 4

SetSpeedContract(ctl, s, r) ==
    /\ r.ctl.cancel_flag = ctl.cancel_flag
    /\ r.ctl.pause_flag = ctl.pause_flag
    /\ s < 0 => /\ r.result # "Ok"
                /\ r.ctl.pacing_enabled = ctl.pacing_enabled
                /\ r.ctl.speed = ctl.speed
    /\ s = 0 => /\ r.result = "Ok"
                /\ r.ctl.pacing_enabled = FALSE
                /\ r.ctl.speed = ctl.speed
    /\ s > 0 => /\ r.result = "Ok"
                /\ r.ctl.pacing_enabled = TRUE
                /\ r.ctl.speed = s

\* C26: set_speed(s) with s < 0 returns an error and leaves pacing_enabled
\* and speed as they were; with s = 0 it sets pacing_enabled false and
\* leaves speed; with s > 0 it sets pacing_enabled true and speed s; it
\* never touches the cancel and pause flags; TimelineControl::set_speed
\* run on the reader's control state gives the same result and state
C26_SetSpeedContract ==
    [][\A s \in Speeds :
         BufSetSpeed(s) =>
             /\ set_speed_result' = [speed |-> s, result |-> set_speed_result'.result]
             /\ SetSpeedContract(Control, s,
                                 [result |-> set_speed_result'.result, ctl |-> Control'])
             /\ TimelineControl_set_speed(Control, s)
                    = [result |-> set_speed_result'.result, ctl |-> Control']]_vars

\* a negative speed was refused while the reader was running, paced at
\* speed 2
C26_Witness ==
    /\ sys = "buffer"
    /\ set_speed_result.speed < 0
    /\ set_speed_result.result = "Err: Speed cannot be negative"
    /\ pacing_enabled
    /\ speed = 2
    /\ state = "Running"

(***************************************************************************)
(* Properties of the frames buffers of live sessions                       *)
(***************************************************************************)
\* the session whose stream created buffer k
Creator(k) == CHOOSE i \in LiveSessions : live[i].buffer_id = k

\* C27: with two live sessions, a frames buffer holds only frames its
\* creator received, in the order received; it is finalized only once its
\* creator's stream has ended
C27_BufferIsolation ==
    sys = "store" =>
        \A k \in 1..Len(store.buffers) :
            /\ \A n \in 1..Len(store.buffers[k].frames) :
                  store.buffers[k].frames[n].session = Creator(k)
            /\ live[Creator(k)].pc = "ended" =>
                  store.buffers[k].frames = live[Creator(k)].received
            /\ store.buffers[k].finalized => live[Creator(k)].pc = "ended"

(***************************************************************************)
(* Properties of MultiSourceReader::stop                                   *)
(***************************************************************************)
\* a step of stop()'s wait or of one of the session's tasks
StopProgress ==
    \/ MultiStopJoin
    \/ MergeLoad
    \/ MergeCheck
    \/ MergeRecv
    \/ MergeJoin
    \/ \E i \in SourceIdx :
          \/ SrcConnect(i)
          \/ SlcanSrcConnect(i)
          \/ SlcanSrcRead(i)
          \/ SrcSend(i)
          \/ SrcRead(i)
          \/ TxCheck(i)
          \/ TxRecv(i)
          \/ TxWrite(i)

\* C28: while stop() waits, the merge task or a source task can take a
\* step or stop() can return: no state leaves stop() waiting for tasks
\* none of which can move
C28_StopNeverStuck ==
    (sys = "multi" /\ mCtl = "stopping") => ENABLED StopProgress

(***************************************************************************)
(* Properties of the active-source counter                                 *)
(***************************************************************************)
\* the source's task has been spawned and has neither returned nor reached
\* the send of its last message
SourceRunning(i) == srcPc[i] \notin {"none", "done", "send_last"}

\* this step puts a terminal message of source i on the merge channel
SendsTerminal(i) ==
    /\ Len(chan') = Len(chan) + 1
    /\ chan'[Len(chan')].kind \in {"Ended", "Error"}
    /\ chan'[Len(chan')].source_idx = i

\* C29: a source's terminal message (Ended or Error) is the last message
\* it sends; in the merge loop the counter is never below the number of
\* sources still running, and without stop() the loop is left only when no
\* source is still running
C29_CounterAccuracy ==
    /\ []( sys = "multi" =>
            /\ mergePc \in {"loop", "recv"} =>
                  active_sources >= Cardinality({i \in SourceIdx : SourceRunning(i)})
            /\ (mergePc \in {"join", "done"} /\ ~stop_flag) =>
                  \A i \in SourceIdx : ~SourceRunning(i) )
    /\ [][\A i \in SourceIdx : SendsTerminal(i) => srcPc'[i] = "done"]_vars

(***************************************************************************)
(* Properties of the cancellation of a replay                              *)
(***************************************************************************)
\* the replay task is in its loop or at the flush after it: it has not yet
\* made its last test of the cancel flag
BeforeLastTest ==
    pc \in {"head", "seek", "pause_sleep", "branch", "hs_emit", "norm_sleep", "final"}

\* this step sets the completed flag or emits stream-complete
ReportsCompletion ==
    \/ completed_flag' /\ ~completed_flag
    \/ /\ Len(events') = Len(events) + 1
       /\ events'[Len(events')] = StreamComplete

Timestamps == {frames[k].timestamp_us : k \in 1..Len(frames)}

MaxRecordLen == HEADER_LEN + DLC_LEN[16]

\* C32: after every call of parse_gvret_frames the buffer holds either at
\* most 1024 bytes none of which is the sync byte, or fewer than 75 bytes
\* the first of which is the sync byte; the parser returns on every input
\* and finds nothing more in what it left
C32_ParseBufferBounded ==
    sys = "codec" =>
        /\ \/ SyncPos(parse_buffer) = 0 /\ Len(parse_buffer) <= 1024
           \/ /\ SyncPos(parse_buffer) = 1
              /\ Len(parse_buffer) < 75
              /\ Len(parse_buffer) < MaxRecordLen
        /\ parse_gvret_frames(parse_buffer) = [out |-> <<>>, buffer |-> parse_buffer]

\* 1024 bytes without a sync byte have accumulated in the buffer over reads
\* of at most three bytes
C32_Witness ==
    /\ sys = "codec"
    /\ codIn.kind = "flood"
    /\ Len(parse_buffer) = 1024
    /\ SyncPos(parse_buffer) = 0
    /\ Len(codWire) > 1

\* the frames still to come: what the parser returns for the bytes in the
\* buffer followed by the bytes not yet read, fed in one piece
FramesAhead(buf, wire) == WithoutTimestamp(parse_gvret_frames(buf \o wire).out)

\* C33: a read's bytes are appended to the buffer with the incomplete record
\* it holds; the frames returned so far followed by the frames of the rest
\* of the stream fed in one piece are the same after a read of any size as
\* before it, so every split of the stream yields the frames of the whole
C33_ChunkingInvariance ==
    [][\A n \in 1..Len(codWire) :
         CodecFeed(n) =>
             WithoutTimestamp(codOut') \o FramesAhead(parse_buffer', codWire')
                = WithoutTimestamp(codOut) \o FramesAhead(parse_buffer, codWire)]_vars

\* the first record has been returned and the buffer holds the second
\* record's header and part of its payload, the rest not yet read
C33_Witness ==
    /\ sys = "codec"
    /\ codIn.kind = "resync"
    /\ codPc = "feed"
    /\ WithoutTimestamp(codOut) = <<SentFields[1]>>
    /\ SyncPos(parse_buffer) = 1
    /\ Len(parse_buffer) > HEADER_LEN
    /\ codIn.sent[2].bytes = Bytes4
    /\ codWire # <<>>

(***************************************************************************)
(* Properties of the slcan line buffers                                    *)
(***************************************************************************)
\* C34: in both read loops, after a read that ends with a BEL or with a
\* byte above 0x7F the line buffer is empty, after one that ends with
\* another control character no line is in progress, the line buffer never
\* holds more than 64 bytes, and the only frame parsed is the one of a line
\* received whole after the last such byte or overflow
C34_LineDiscipline ==
    (sys = "slcan" /\ slPos > 0) =>
        /\ slWire.bytes[slPos] \in {"BEL", "HIGH", "TAB", "\r"} => slLine = <<>>
        /\ Len(slLine) <= SLCAN_LINE_LIMIT
        /\ slPc = "eof" =>
              slFrames = (IF Len(slWire.bytes) = Len(LineHead \o LineRest)
                             \/ Len(slWire.bytes) > SLCAN_LINE_LIMIT
                          THEN LineFrames(LineHead \o <<"3", "0">>) ELSE <<>>)

(***************************************************************************)
(* Properties of the framed serial messages                                *)
(***************************************************************************)
\* C35: every frame the framer emitted from flush() or by a forced split
\* (the frames it marked incomplete) is delivered as a FrameMessage with
\* incomplete set, by the live reader and by apply_framing_to_buffer
C35_IncompleteMarking ==
    (sys = "serial" /\ serPc \in {"read", "ended", "done"}) =>
        /\ Len(serOut) = Len(serData)
        /\ \A k \in 1..Len(serOut) :
              serData[k].incomplete => serOut[k].incomplete = "Some(true)"

\* C36: the dlc of every framed serial message is the number of bytes of
\* its frame
C36_DlcIsLength ==
    sys = "serial" => \A k \in 1..Len(serOut) : serOut[k].dlc = Len(serOut[k].bytes)

(***************************************************************************)
(* Properties of abandoned transmit requests                               *)
(***************************************************************************)
TimeoutError == "Err: timeout or channel closed"

\* the request of the k-th transmit_frame call of the multi-source session
\* is with the transmit tasks: queued, taken, written or answered
MultiRequestKept(k) ==
    \/ \E i \in DOMAIN txq :
          \/ \E n \in 1..Len(txq[i]) : txq[i][n].id = k
          \/ txCur[i].id = k
    \/ \E n \in 1..Len(written) : written[n].req.id = k
    \/ \E r \in replies : r.id = k

\* the same for the request of caller c of the GVRET reader
GvretRequestKept(c) ==
    \/ \E n \in 1..Len(gTxq) : gTxq[n] = c
    \/ gTxCur = c
    \/ \E n \in 1..Len(gWritten) : gWritten[n].id = c
    \/ \E r \in gReplies : r.id = c

\* C37: a transmit request is not withdrawn when transmit_frame returns the
\* timeout error: it is still queued or with the transmit task, unless the
\* task has written it or answered it since
C37_RequestNotWithdrawn ==
    /\ sys = "multi" =>
          \A k \in 1..Len(results) : results[k] = TimeoutError => MultiRequestKept(k)
    /\ (sys = "gvret" /\ gConfig.kind = "gvret_tcp") =>
          \A c \in Callers : gResults[c] = TimeoutError => GvretRequestKept(c)

\* a call of the multi-source session returned the timeout error and the
\* transmit task wrote its frame to the device
C37_Witness ==
    /\ sys = "multi"
    /\ \E k \in 1..Len(results) :
          /\ results[k] = TimeoutError
          /\ \E n \in 1..Len(written) : written[n].req.id = k

\* the same for the GVRET reader
GvretWrittenAfterError ==
    /\ sys = "gvret"
    /\ \E c \in Callers :
          /\ gResults[c] = TimeoutError
          /\ \E n \in 1..Len(gWritten) : gWritten[n].id = c

(***************************************************************************)
(* Properties of the end of a serial-port stream                           *)
(***************************************************************************)
\* C38: once the stream thread of an slcan or GVRET USB reader has emitted
\* stream-ended on its own, stream-ended stays the last event of the
\* session: nothing is emitted after it, and no transmit_frame sends a frame
\* and echoes it
C38_StreamEndedIsLast ==
    (sys = "gvret" /\ gPc = "ended") =>
        /\ events[Len(events)].ev = "stream-ended"
        /\ \A c \in Callers : gCallPc[c] \notin {"append", "emit"}

(***************************************************************************)
(* Properties of a seek requested outside a replay                         *)
(***************************************************************************)
\* C39: a pending seek survives the stream.  seek() stores its target in
\* every state of the reader; a stored target changes only by another
\* seek() or by the seek step of a running replay task; start() resets the
\* cancel and pause flags and leaves the target; a replay that finds a
\* target at its first test goes to its seek step before it emits anything,
\* and that step makes the seek position the start of the replay.
C39_PendingSeekSurvives ==
    [][/\ \A t \in SeekTargets(frames) :
            (sys = "buffer" /\ ctlPc = "idle" /\ nCtl < MaxCtl) => ENABLED BufSeekTo(t)
       /\ (seek_target_us # NO_SEEK /\ seek_target_us' # seek_target_us) =>
            \/ BufSeek
            \/ \E t \in SeekTargets(frames) : BufSeekTo(t)
       /\ BufStart => /\ seek_target_us' = seek_target_us
                      /\ ~cancel_flag' /\ ~pause_flag'
       /\ (BufHead /\ frame_index = 0 /\ events = <<>>
                   /\ seek_target_us # NO_SEEK /\ ~cancel_flag) =>
            pc' = "seek"
       /\ (BufSeek /\ frame_index = 0 /\ events = <<>>) =>
            /\ frame_index' \in binary_search(frames, seek_target)
            /\ Head(events') = PlaybackTime(frames[frame_index' + 1].timestamp_us)
      ]_vars

\* a replay has ended on its own and was not started again, and a seek to a
\* position after the first frame is pending
C39_Witness ==
    /\ sys = "buffer"
    /\ completed_flag
    /\ pc = "done"
    /\ seek_target_us # NO_SEEK
    /\ seek_target_us > frames[1].timestamp_us

====
